---- MODULE Spec2Model ----
(***************************************************************************)
(* A model of the stock-market cog (src/cogs/market.py): the limit order   *)
(* book, the matching engine, the market maker (MM), the fair-value model  *)
(* and the weekly settlement.                                              *)
(*                                                                         *)
(* Units.  Python floats are modelled in fixed point:                      *)
(*   - a price typed by a user (float argument)   : mills  (1/1000)        *)
(*   - orders.price, trades.price (round(x, 2))   : cents  (1/100)         *)
(*   - economy.cash (INTEGER)                     : whole currency units   *)
(*   - mm_state.cash (REAL, sums of price * qty)  : cents                  *)
(*   - fair_price, spread, skew, bid, ask, avg_cost: pips  (1/10000)       *)
(*   - volatility, inv_dev, a (dimensionless)     : 1/10000                *)
(*   - revenue (REAL)                             : whole revenue units    *)
(* Every float operation whose exact result is not representable in the    *)
(* unit is rounded to the nearest unit (RoundDiv); int() truncates.        *)
(***************************************************************************)
EXTENDS Integers, Sequences, FiniteSets, TLC

\* ------------------------------------------------------------------ bounds
\* handler invocations after the initial state
MaxOps == 3

\* ------------------------------------------------------- program constants
MM_USER_ID == 0
IPO_TOTAL_SHARES == 1000
MM_STARTING_SHARES == 1000
MM_STARTING_CASH == 3000000
MM_QUOTE_CAP == 100
MARKET_BUY_SENTINEL == 999999990
MARKET_SELL_SENTINEL == 10
MIN_PRICE == 100
DEFAULT_VOLATILITY == 100
MIN_VOLATILITY == 10
RECENT_TRADES == 20
MM_ALPHA_PCT == 30
MM_BASE_SPREAD_X10 == 8
MM_A_X10 == 15
MM_K_PCT == 5
MM_TARGET_INVENTORY_PCT == 35
MM_MAX_WEEKLY_MOVE_PCT == 8
MM_TRADE_IMPACT_PCT == 2
Scale == 100 * 100

\* ------------------------------------------------------------- input sets
Users == {1, 2}
\* economy.cash of a user when the market opens
CashInputs == {300}
\* prices a user may type, in mills: 91.996 (stored as 92.00) and 95.00
PriceInputs == {91996, 95000}
ShareInputs == {0, 1, 2}
\* shares user 1 has bought at the market before the first state
SeedShares == {0, 2}
\* The day the bot starts on: day 0 is a Monday, so 5 is a Saturday and 6 a Sunday.
StartDays == {5, 6}
\* the IPO price, in pips: 100.00
IpoPrices == {1000000}
\* the weighted characters of the messages of a busy day
RevenueInputs == {10000}
\* random.uniform(0.95, 1.05), in percent
NoiseInputs == {95, 105}

\* ------------------------------------------------------------- arithmetic
Abs(x) == IF x < 0 THEN -x ELSE x
Max(a, b) == IF a >= b THEN a ELSE b
Min(a, b) == IF a <= b THEN a ELSE b

\* The nearest integer to a / b (b > 0), halves away from zero.
RoundDiv(a, b) ==
    IF a >= 0 THEN (a + b \div 2) \div b
    ELSE -(((-a) + b \div 2) \div b)

\* The nearest integer to a * m / b (a >= 0, b > 0, b * m within 31 bits).
MulDiv(a, m, b) == (a \div b) * m + RoundDiv((a % b) * m, b)

\* int(a / b): truncation toward zero (b > 0).
TruncDiv(a, b) == IF a >= 0 THEN a \div b ELSE -((-a) \div b)

\* a * f / Scale rounded to nearest, for 0 <= a and |f| < 200000, without
\* leaving 32 bits.
MulScale(a, f) ==
    LET hi == a \div Scale
        lo == a % Scale
    IN  hi * f + RoundDiv(lo * f, Scale)

\* floor(sqrt(n)) by bisection on [lo, hi].
RECURSIVE ISqrtIn(_, _, _)
ISqrtIn(n, lo, hi) ==
    IF lo >= hi THEN lo
    ELSE LET mid == (lo + hi + 1) \div 2
         IN  IF mid * mid <= n THEN ISqrtIn(n, mid, hi) ELSE ISqrtIn(n, lo, mid - 1)
ISqrt(n) == ISqrtIn(n, 0, 40000)

RECURSIVE SumSeq(_)
SumSeq(s) == IF s = <<>> THEN 0 ELSE Head(s) + SumSeq(Tail(s))

\* round(price, 2) of a price given in mills (ties to even).
Round2(m) ==
    LET q == m \div 10
        r == m % 10
    IN  IF r < 5 THEN q
        ELSE IF r > 5 THEN q + 1
        ELSE IF q % 2 = 0 THEN q ELSE q + 1

\* ------------------------------------------------------------------ state
VARIABLES
    company,      \* the companies row of the channel, or NoRow
    mm,           \* the mm_state row of the channel, or NoRow
    orders,       \* the orders table: a set of order rows
    nextId,       \* orders.id AUTOINCREMENT: the next id
    clock,        \* the wall clock read by utcnow(): created_at, timestamps
    cash,         \* economy.cash of every user
    holdings,     \* holdings of every user: [quantity, avg_cost] (0 = no row)
    trades,       \* the trades table, in insertion order
    revenue,      \* the channel_revenue row of the newest week: [week, accumulated]
    today,        \* the calendar day (day 0 is a Monday)
    dividend_pct, \* market_settings.dividend_pct of the guild, in percent
    closed,       \* history: every order row deleted so far, as it was deleted
    settlements,  \* history: every run of settle_weekly_revenue, in order
    last,         \* history: what the last handler did
    ops,          \* number of handler invocations so far
    fp,           \* inputs and result of a direct call of compute_fair_price
    tasks         \* the coroutines in flight: position and local variables

vars == <<company, mm, orders, nextId, clock, cash, holdings, trades, revenue,
          today, dividend_pct, closed, settlements, last, ops, fp, tasks>>

NoRow == [exists |-> FALSE]

\* The database as one value: handlers are functions from DB to DB.
DB == [company |-> company, mm |-> mm, orders |-> orders, nextId |-> nextId,
       clock |-> clock, cash |-> cash, holdings |-> holdings, trades |-> trades,
       revenue |-> revenue, today |-> today, dividend_pct |-> dividend_pct,
       closed |-> closed, settlements |-> settlements]

\* _week_start(): the Monday of the week of `day`.
week_start(day) == day - (day % 7)

\* ------------------------------------------------------------- DB helpers
\* get_daily_volume: SUM(quantity) of the trades of today.
RECURSIVE VolumeOf(_, _)
VolumeOf(ts, day) ==
    IF ts = <<>> THEN 0
    ELSE (IF Head(ts).day = day THEN Head(ts).quantity ELSE 0) + VolumeOf(Tail(ts), day)
get_daily_volume(d) == VolumeOf(d.trades, d.today)

\* get_recent_trade_prices: the prices of the newest n trades, newest first.
get_recent_trade_prices(d, n) ==
    LET len == Len(d.trades)
        k   == Min(len, n)
    IN  [i \in 1..k |-> d.trades[len + 1 - i].price]

\* SELECT accumulated_revenue ... WHERE week_start = this week, or 0.0.
accumulated_revenue(d) ==
    IF d.revenue.week = week_start(d.today) THEN d.revenue.accumulated ELSE 0

\* ---------------------------------------------------------------- MM engine
\* math.log(a / b) in 1/Scale, by 2 (a - b) / (a + b): exact to the unit for
\* the returns the model's prices produce.
LogRatio(a, b) == RoundDiv(2 * (a - b) * Scale, a + b)

\* The log returns of consecutive prices (0 where a price is not positive).
Returns(prices) ==
    [i \in 1..(Len(prices) - 1) |->
        IF prices[i + 1] > 0 /\ prices[i] > 0 THEN LogRatio(prices[i], prices[i + 1]) ELSE 0]

\* sum((r - mean_r) ** 2 for r in returns) / len(returns), over the valid returns
VarianceOf(prices, returns, n, mean_r) ==
    RoundDiv(SumSeq([i \in 1..Len(returns) |->
                        IF prices[i + 1] > 0 /\ prices[i] > 0
                        THEN (returns[i] - mean_r) * (returns[i] - mean_r) ELSE 0]), n)

VolatilityOf(prices, returns, n) ==
    IF Len(prices) < 2 THEN DEFAULT_VOLATILITY
    ELSE IF n = 0 THEN DEFAULT_VOLATILITY
    ELSE Max(ISqrt(VarianceOf(prices, returns, n, RoundDiv(SumSeq(returns), n))),
             MIN_VOLATILITY)

ValidReturns(prices) ==
    Cardinality({i \in 1..(Len(prices) - 1) : prices[i + 1] > 0 /\ prices[i] > 0})

PricesVolatility(prices) == VolatilityOf(prices, Returns(prices), ValidReturns(prices))

compute_volatility(d) == PricesVolatility(get_recent_trade_prices(d, RECENT_TRADES))

\* No clamp: new_fair as it is.
ClampMoveNone(old_fair, new_fair) == new_fair

\* max(lower, min(upper, new_fair)) with the +/-8% bounds of old_fair.
ClampMove(old_fair, new_fair) ==
    Max(MulScale(old_fair, Scale - MM_MAX_WEEKLY_MOVE_PCT * 100),
        Min(MulScale(old_fair, Scale + MM_MAX_WEEKLY_MOVE_PCT * 100), new_fair))

\* old_fair * (1 + MM_ALPHA * (ratio - 1)), ratio in 1/Scale.
UnclampedFair(old_fair, ratio) ==
    MulScale(old_fair, Scale + RoundDiv(MM_ALPHA_PCT * (ratio - Scale), 100))

\* compute_fair_price(old_fair, estimated_revenue, last_revenue).
compute_fair_price(old_fair, estimated_revenue, last_revenue) ==
    IF last_revenue <= 0 THEN old_fair
    ELSE ClampMove(old_fair,
                   UnclampedFair(old_fair, MulDiv(estimated_revenue, Scale, last_revenue)))

\* target_inv, in 1/100 share.
target_inventory(daily_volume, total_shares) ==
    Max(MM_TARGET_INVENTORY_PCT * Max(daily_volume, 100),
        MM_TARGET_INVENTORY_PCT * total_shares)

\* inv_dev = (inventory - target_inv) / max(target_inv, 1), in 1/Scale.
inventory_deviation(inventory, target_inv) ==
    RoundDiv((100 * inventory - target_inv) * Scale, Max(target_inv, 100))

\* A skew with the sign of the inventory deviation.
skew_of_same_sign(inventory, target_inv, fair_price) ==
    IF 100 * inventory >= target_inv
    THEN MulDiv(MulScale(fair_price, MM_K_PCT * 100),
                (100 * inventory - target_inv) \div 5, Max(target_inv, 100) \div 5)
    ELSE -MulDiv(MulScale(fair_price, MM_K_PCT * 100),
                 (target_inv - 100 * inventory) \div 5, Max(target_inv, 100) \div 5)

\* skew = -MM_K * inv_dev * fair_price, in pips: MM_K * fair_price times the
\* quotient (inventory - target_inv) / target_inv, whose two terms are
\* multiples of 5 (hundredths of a share; the target is 35 per cent).
skew_of(inventory, target_inv, fair_price) ==
    IF 100 * inventory >= target_inv
    THEN -MulDiv(MulScale(fair_price, MM_K_PCT * 100),
                 (100 * inventory - target_inv) \div 5, Max(target_inv, 100) \div 5)
    ELSE MulDiv(MulScale(fair_price, MM_K_PCT * 100),
                (target_inv - 100 * inventory) \div 5, Max(target_inv, 100) \div 5)

\* spread, in pips.
spread_of(inv_dev, fair_price, volatility, daily_volume) ==
    Max(RoundDiv(MM_BASE_SPREAD_X10
                   * (RoundDiv(Max(Scale, Min(2 * Scale,
                                   RoundDiv(MM_A_X10 * 350 * Scale,
                                            10 * Max(daily_volume, 1))))
                               * volatility, Scale)
                      + Abs(inv_dev)), 10)
          + RoundDiv(inv_dev * inv_dev, Scale),
        MulScale(fair_price, 50))

SpreadAndSkew(inventory, target_inv, fair_price, volatility, daily_volume) ==
    <<spread_of(inventory_deviation(inventory, target_inv), fair_price, volatility,
                daily_volume),
      skew_of(inventory, target_inv, fair_price)>>

\* compute_spread_and_skew: <<spread, skew>> in pips.
compute_spread_and_skew(fair_price, volatility, inventory, daily_volume, total_shares) ==
    SpreadAndSkew(inventory, target_inventory(daily_volume, total_shares),
                  fair_price, volatility, daily_volume)

\* An orders row.  created_at is the clock value of the INSERT.
OrderRow(id, user_id, side, price, quantity, is_mm, created_at) ==
    [id |-> id, user_id |-> user_id, side |-> side, price |-> price,
     quantity |-> quantity, remaining |-> quantity, is_mm |-> is_mm,
     created_at |-> created_at]

\* DELETE FROM orders WHERE id IN ids.  The history keeps each deleted row
\* with the remaining quantity r it ended with (r < 0: the one of the row).
DeleteOrders(d, ids, why, r) ==
    [d EXCEPT !.orders = {o \in @ : o.id \notin ids},
              !.closed = @ \cup {[row |-> IF r < 0 THEN o ELSE [o EXCEPT !.remaining = r],
                                  why |-> why] : o \in {x \in d.orders : x.id \in ids}}]

\* cancel_mm_orders: DELETE FROM orders WHERE is_mm = 1.
cancel_mm_orders(d) ==
    DeleteOrders(d, {o.id : o \in {x \in d.orders : x.is_mm = 1}}, "requote", -1)

\* The bid and ask of a re-quote, in pips, before rounding.
mm_bid(fair_price, spread, skew) ==
    Max(fair_price - RoundDiv(spread, 2) + skew, MIN_PRICE)

\* The ask without its floor of bid + 0.01.
mm_ask_unfloored(fair_price, spread, skew) == fair_price + RoundDiv(spread, 2) + skew

mm_ask(fair_price, spread, skew) ==
    Max(fair_price + RoundDiv(spread, 2) + skew, mm_bid(fair_price, spread, skew) + MIN_PRICE)

\* The sizes of the two quotes.  min(100, int(cash / bid)), cash in cents and
\* bid in pips: 100 once the cash pays for a share at 100 times the bid, else
\* the number of n with n * bid <= cash (compared in cents, within 32 bits).
mm_bid_qty(mm_cash, bid) ==
    IF bid <= 0 THEN 0
    ELSE IF mm_cash \div bid >= 1 THEN MM_QUOTE_CAP
    ELSE Cardinality({n \in 1..MM_QUOTE_CAP :
                         n * (bid \div 100) + (n * (bid % 100) + 99) \div 100 <= mm_cash})
mm_ask_qty(inventory) == Min(MM_QUOTE_CAP, inventory)

\* The two INSERTs of a re-quote (a side of size 0 is left out) and the UPDATEs
\* of mm_state and companies.
PostQuotes(d, fair_price, volatility, bid, ask, bid_qty, ask_qty) ==
    [d EXCEPT
       !.orders  = @ \cup (IF bid_qty > 0
                           THEN {OrderRow(d.nextId, MM_USER_ID, "buy", RoundDiv(bid, 100),
                                          bid_qty, 1, d.clock)}
                           ELSE {})
                     \cup (IF ask_qty > 0
                           THEN {OrderRow(d.nextId + (IF bid_qty > 0 THEN 1 ELSE 0),
                                          MM_USER_ID, "sell", RoundDiv(ask, 100),
                                          ask_qty, 1, d.clock)}
                           ELSE {}),
       !.nextId  = @ + (IF bid_qty > 0 THEN 1 ELSE 0) + (IF ask_qty > 0 THEN 1 ELSE 0),
       !.clock   = @ + 1,
       !.mm      = [@ EXCEPT !.fair_price = fair_price, !.volatility = volatility],
       !.company = [@ EXCEPT !.fair_price = fair_price]]

\* refresh_mm_quotes from the quotes on: cancel the old orders, post the new.
CancelReplace(d, fair_price, volatility, bid, ask) ==
    PostQuotes(cancel_mm_orders(d), fair_price, volatility, bid, ask,
               mm_bid_qty(d.mm.cash, bid), mm_ask_qty(d.mm.inventory))

\* (CHOOSE over a one-element set: the quotes are computed once, as the local
\* variables bid and ask of the code are.)
QuoteAround(d, fair_price, volatility, ss) ==
    CHOOSE r \in {CancelReplace(d, fair_price, volatility, bid, ask) :
                      bid \in {mm_bid(fair_price, ss[1], ss[2])},
                      ask \in {mm_ask(fair_price, ss[1], ss[2])}} : TRUE

QuoteAt(d, fair_price, volatility) ==
    CHOOSE r \in {QuoteAround(d, fair_price, volatility, ss) :
                      ss \in {compute_spread_and_skew(fair_price, volatility, d.mm.inventory,
                                                      get_daily_volume(d),
                                                      d.company.total_shares)}} : TRUE

\* estimated_revenue = (accumulated / days_elapsed) * 7
estimated_revenue(d) ==
    RoundDiv(accumulated_revenue(d) * 7, Max(d.today - week_start(d.today), 1))

\* The fair price of a re-quote: compute_fair_price, then the 0.01 floor.
requote_fair(d) ==
    Max(compute_fair_price(d.mm.fair_price, estimated_revenue(d), d.company.last_revenue),
        MIN_PRICE)

refresh_mm_quotes(d) ==
    IF ~d.company.exists \/ ~d.mm.exists THEN d
    ELSE CHOOSE r \in {QuoteAt(d, f, v) : f \in {requote_fair(d)},
                                          v \in {compute_volatility(d)}} : TRUE

\* ------------------------------------------------------------------ ledger
\* update_cash: UPDATE economy SET cash = cash + amount.
update_cash(d, user_id, amount) ==
    [d EXCEPT !.cash[user_id] = @ + amount]

\* price=None of update_holdings.
NoPrice == -1

\* The avg_cost (pips) update_holdings stores for the new quantity:
\* (old_qty * old_avg + qty_delta * price) / new_qty, the quotients and the
\* remainders by new_qty weighted apart so that no product leaves 32 bits.
new_avg_cost(old_qty, old_avg, qty_delta, price) ==
    IF qty_delta > 0 /\ price # NoPrice /\ price > 0
    THEN old_qty * (old_avg \div (old_qty + qty_delta))
         + qty_delta * ((price * 100) \div (old_qty + qty_delta))
         + RoundDiv(old_qty * (old_avg % (old_qty + qty_delta))
                      + qty_delta * ((price * 100) % (old_qty + qty_delta)),
                    old_qty + qty_delta)
    ELSE old_avg

\* update_holdings(user, qty_delta, price); price in cents.  A row DELETEd at
\* quantity <= 0 reads as quantity 0.
update_holdings(d, user_id, qty_delta, price) ==
    IF d.holdings[user_id].quantity + qty_delta <= 0
    THEN [d EXCEPT !.holdings[user_id] = [quantity |-> 0, avg_cost |-> 0]]
    ELSE [d EXCEPT !.holdings[user_id] =
                      [quantity |-> @.quantity + qty_delta,
                       avg_cost |-> new_avg_cost(@.quantity, @.avg_cost, qty_delta, price)]]

\* ------------------------------------------------------- matching engine
\* The fair price after a trade at `price` (cents): fair + 0.02 (price - fair).
nudged_fair(fair_price, price) ==
    fair_price + RoundDiv(MM_TRADE_IMPACT_PCT * (price * 100 - fair_price), 100)

\* execute_trade, buyer side: the MM pays cost and gains inventory; a user
\* gains holdings (the cash was reserved at order time).
credit_buyer(d, buyer_id, price, quantity) ==
    IF buyer_id = MM_USER_ID
    THEN [d EXCEPT !.mm.cash = @ - price * quantity, !.mm.inventory = @ + quantity]
    ELSE update_holdings(d, buyer_id, quantity, price)

\* The seller side with the MM's inventory left as it is.
credit_seller_keeps_inventory(d, seller_id, price, quantity) ==
    IF seller_id = MM_USER_ID
    THEN [d EXCEPT !.mm.cash = @ + price * quantity]
    ELSE update_cash(d, seller_id, TruncDiv(price * quantity, 100))

\* execute_trade, seller side: the MM receives cost and loses inventory; a
\* user receives int(cost) (the shares were reserved at order time).
credit_seller(d, seller_id, price, quantity) ==
    IF seller_id = MM_USER_ID
    THEN [d EXCEPT !.mm.cash = @ + price * quantity, !.mm.inventory = @ - quantity]
    ELSE update_cash(d, seller_id, TruncDiv(price * quantity, 100))

\* INSERT INTO trades.
record_trade(d, row) == [d EXCEPT !.trades = Append(@, row)]

\* execute_trade without its nudge of the fair price.
nudge_fair_none(d, new_fair) == d

\* The trade-impact nudge of mm_state.fair_price and companies.fair_price.
nudge_fair(d, new_fair) ==
    IF d.mm.exists
    THEN [d EXCEPT !.mm.fair_price = new_fair, !.company.fair_price = new_fair]
    ELSE d

\* execute_trade up to record_price: the deliveries and the trade row.  `h`
\* carries the history fields of the trade row (the ids, limits and remaining
\* quantities of the two orders), which the table lacks.
deliver(d, buyer_id, seller_id, price, quantity, h) ==
    record_trade(credit_seller(credit_buyer(d, buyer_id, price, quantity),
                               seller_id, price, quantity),
                 [buyer_id |-> buyer_id, seller_id |-> seller_id,
                  price |-> price, quantity |-> quantity,
                  day |-> d.today, h |-> h])

execute_trade(d, buyer_id, seller_id, price, quantity, h) ==
    nudge_fair(deliver(d, buyer_id, seller_id, price, quantity, h),
               nudged_fair(d.mm.fair_price, price))

\* ORDER BY price ASC, created_at DESC.
AskBeforeLatestFirst(a, b) ==
    \/ a.price < b.price
    \/ a.price = b.price /\ a.created_at > b.created_at

\* ORDER BY price ASC, created_at ASC (asks) and price DESC, created_at ASC
\* (bids): TRUE when a comes before b.  Rows equal in both come in id order.
AskBefore(a, b) ==
    \/ a.price < b.price
    \/ a.price = b.price /\ a.created_at < b.created_at
    \/ a.price = b.price /\ a.created_at = b.created_at /\ a.id < b.id
BidBefore(a, b) ==
    \/ a.price > b.price
    \/ a.price = b.price /\ a.created_at < b.created_at
    \/ a.price = b.price /\ a.created_at = b.created_at /\ a.id < b.id
Before(side, a, b) == IF side = "sell" THEN AskBefore(a, b) ELSE BidBefore(a, b)

\* The first row of S in the order of the SELECT.
FirstOf(S, side) == CHOOSE a \in S : \A b \in S \ {a} : Before(side, a, b)

\* The rows of S (all of one side) in the order of the SELECT.
RECURSIVE SortedFrom(_, _, _)
SortedFrom(S, side, acc) ==
    IF S = {} THEN acc
    ELSE SortedFrom({x \in S : x # FirstOf(S, side)}, side, Append(acc, FirstOf(S, side)))
Sorted(S, side) == SortedFrom(S, side, <<>>)

\* The two SELECTs without the price condition.
EligibleAnyPrice(d, order) ==
    IF order.side = "buy"
    THEN {o \in d.orders : o.side = "sell" /\ o.id # order.id}
    ELSE {o \in d.orders : o.side = "buy" /\ o.id # order.id}

\* The resting orders a new order may match: the rows of the two SELECTs.
Eligible(d, order) ==
    IF order.side = "buy"
    THEN {o \in d.orders : o.side = "sell" /\ o.price <= order.price /\ o.id # order.id}
    ELSE {o \in d.orders : o.side = "buy" /\ o.price >= order.price /\ o.id # order.id}

\* SetRemaining without the DELETE of a row that reached 0.
SetRemainingNoDelete(d, id, r) ==
    [d EXCEPT !.orders = {IF o.id = id THEN [o EXCEPT !.remaining = r] ELSE o : o \in @}]

\* UPDATE orders SET remaining = r WHERE id = id, or DELETE when r <= 0.
SetRemaining(d, id, r) ==
    IF r <= 0
    THEN DeleteOrders(d, {id}, "filled", r)
    ELSE [d EXCEPT !.orders = {IF o.id = id THEN [o EXCEPT !.remaining = r] ELSE o
                               : o \in @}]

\* fill_qty = remaining: all the incoming order still wants.
fill_qty_incoming(remaining, rest) == remaining

\* fill_qty = min(remaining, rest["remaining"]); fill_price = rest["price"]
fill_qty(remaining, rest) == Min(remaining, rest.remaining)
fill_price(order, rest) == rest.price

\* The history fields of a trade.
TradeHistory(order, rest, remaining) ==
    [taker |-> order.id, maker |-> rest.id, taker_side |-> order.side,
     taker_limit |-> order.price, maker_limit |-> rest.price,
     taker_remaining |-> remaining, maker_remaining |-> rest.remaining]

\* The execute_trade call of one iteration of the loop.
TradeOne(d, order, rest, remaining, qty) ==
    execute_trade(d,
                  IF order.side = "buy" THEN order.user_id ELSE rest.user_id,
                  IF order.side = "buy" THEN rest.user_id ELSE order.user_id,
                  fill_price(order, rest), qty,
                  TradeHistory(order, rest, remaining))

\* The same call up to the SELECT of mm_state that precedes the nudge.
TradeDeliver(d, order, rest, remaining, qty) ==
    deliver(d,
            IF order.side = "buy" THEN order.user_id ELSE rest.user_id,
            IF order.side = "buy" THEN rest.user_id ELSE order.user_id,
            fill_price(order, rest), qty,
            TradeHistory(order, rest, remaining))

\* One iteration of the loop: the trade, then the resting order's UPDATE/DELETE.
FillOne(d, order, rest, remaining, qty) ==
    SetRemaining(TradeOne(d, order, rest, remaining, qty), rest.id, rest.remaining - qty)

\* The entry of `fills` for one iteration.
FillEntry(order, rest, qty) ==
    [price |-> fill_price(order, rest), quantity |-> qty,
     counterparty |-> rest.user_id, maker |-> rest.id]

\* The for loop of match_orders over the snapshot `book`, from row i on.
\* Returns [d, remaining, fills].
RECURSIVE FillLoop(_, _, _, _, _, _)
FillLoop(d, order, remaining, book, i, fills) ==
    IF i > Len(book) \/ remaining <= 0
    THEN [d |-> d, remaining |-> remaining, fills |-> fills]
    ELSE FillLoop(FillOne(d, order, book[i], remaining, fill_qty(remaining, book[i])),
                  order, remaining - fill_qty(remaining, book[i]), book, i + 1,
                  Append(fills, FillEntry(order, book[i], fill_qty(remaining, book[i]))))

\* The end of match_orders with a second re-quote after the first.
AfterMatchTwice(d, fills) ==
    [d |-> IF fills # <<>> THEN refresh_mm_quotes(refresh_mm_quotes(d)) ELSE d,
     fills |-> fills]

\* The end of match_orders: re-quote when anything filled.
AfterMatch(d, fills) ==
    [d |-> IF fills # <<>> THEN refresh_mm_quotes(d) ELSE d, fills |-> fills]

\* match_orders without the UPDATE/DELETE of the new order after the loop.
CloseLoopNoUpdate(r, order) == AfterMatch(r.d, r.fills)

\* The new order's own UPDATE/DELETE after the loop.
CloseLoop(r, order) == AfterMatch(SetRemaining(r.d, order.id, r.remaining), r.fills)

MatchOrder(d, order) ==
    CloseLoop(FillLoop(d, order, order.remaining,
                       Sorted(Eligible(d, order),
                              IF order.side = "buy" THEN "sell" ELSE "buy"),
                       1, <<>>),
              order)

\* match_orders(new_order_id): [d, fills].
match_orders(d, new_order_id) ==
    IF \A o \in d.orders : o.id # new_order_id THEN [d |-> d, fills |-> <<>>]
    ELSE MatchOrder(d, CHOOSE o \in d.orders : o.id = new_order_id)

\* place_limit_order: INSERT the order (price rounded to cents), then match.
\* `price` is in mills.  Returns [d, order_id, fills].
insert_order(d, user_id, side, price, quantity, is_mm) ==
    [d EXCEPT !.orders = @ \cup {OrderRow(d.nextId, user_id, side, Round2(price),
                                          quantity, is_mm, d.clock)},
              !.nextId = @ + 1,
              !.clock  = @ + 1]

place_limit_order(d, user_id, side, price, quantity, is_mm) ==
    [order_id |-> d.nextId] @@
    match_orders(insert_order(d, user_id, side, price, quantity, is_mm), d.nextId)

\* ---------------------------------------------------------------- handlers
\* Every handler returns [ok, d, order_id, fills]: ok = FALSE is a rejection
\* (an early return before any write), and d is then the database it was given.
Reject(d) == [ok |-> FALSE, d |-> d, order_id |-> 0, fills |-> <<>>]
Done(d, order_id, fills) == [ok |-> TRUE, d |-> d, order_id |-> order_id, fills |-> fills]

RECURSIVE FillQty(_)
FillQty(fills) == IF fills = <<>> THEN 0 ELSE Head(fills).quantity + FillQty(Tail(fills))
\* sum(f["price"] * f["quantity"] for f in fills), in cents
RECURSIVE FillCost(_)
FillCost(fills) ==
    IF fills = <<>> THEN 0
    ELSE Head(fills).price * Head(fills).quantity + FillCost(Tail(fills))

\* update_cash(user, amount) when amount > 0.
Refund(d, user_id, amount) == IF amount > 0 THEN update_cash(d, user_id, amount) ELSE d

\* The price-improvement refund of limitbuy: int(price * filled - actual cost).
limitbuy_savings(price, fills) ==
    IF fills = <<>> THEN 0
    ELSE TruncDiv(price * FillQty(fills) - FillCost(fills) * 10, 1000)

LimitBuyPlaced(p, user_id, price) ==
    Done(Refund(p.d, user_id, limitbuy_savings(price, p.fills)), p.order_id, p.fills)

\* A reservation that asks for nothing.
limitbuy_cost_none(price, shares) == 0

\* The cash a limit buy reserves: int(price * shares); price in mills.
limitbuy_cost(price, shares) == TruncDiv(price * shares, 1000)

\* limitbuy(channel, shares, price) by `user_id`; price in mills.
limitbuy(d, user_id, shares, price) ==
    IF ~d.company.exists \/ shares < 1 \/ price <= 0 THEN Reject(d)
    ELSE IF d.cash[user_id] < limitbuy_cost(price, shares) THEN Reject(d)
    ELSE LimitBuyPlaced(place_limit_order(update_cash(d, user_id,
                                                      -limitbuy_cost(price, shares)),
                                          user_id, "buy", price, shares, 0),
                        user_id, price)

LimitSellPlaced(p) == Done(p.d, p.order_id, p.fills)

\* limitsell(channel, shares, price) by `user_id`.
limitsell(d, user_id, shares, price) ==
    IF ~d.company.exists \/ shares < 1 \/ price <= 0 THEN Reject(d)
    ELSE IF d.holdings[user_id].quantity < shares THEN Reject(d)
    ELSE LimitSellPlaced(place_limit_order(update_holdings(d, user_id, -shares, NoPrice),
                                           user_id, "sell", price, shares, 0))

\* COALESCE(SUM(remaining), 0) of one side of the book.
RECURSIVE SumRemaining(_)
SumRemaining(S) ==
    IF S = {} THEN 0
    ELSE SumRemaining({x \in S : x # CHOOSE y \in S : TRUE}) + (CHOOSE y \in S : TRUE).remaining
Available(d, side) == SumRemaining({o \in d.orders : o.side = side})

\* MAX(price) of the sells, 0 when there is none.
worst_price(d) ==
    IF \A o \in d.orders : o.side # "sell" THEN 0
    ELSE (CHOOSE o \in d.orders :
             o.side = "sell" /\ \A x \in d.orders : x.side = "sell" => x.price <= o.price).price

\* The remainder of a market order: deleted when the row is still there.
DiscardRemainder(d, order_id) ==
    DeleteOrders(d, {o.id : o \in {x \in d.orders : x.id = order_id /\ x.remaining > 0}},
                 "discarded", -1)

\* worst_cost = int(worst_price * shares)
worst_cost(d, shares) == TruncDiv(worst_price(d) * shares, 100)

MarketBuyPlaced(p, user_id, reserved) ==
    Done(Refund(DiscardRemainder(p.d, p.order_id), user_id,
                reserved - TruncDiv(FillCost(p.fills), 100)),
         p.order_id, p.fills)

\* mbuy(channel, shares) by `user_id`.
market_buy(d, user_id, shares) ==
    IF ~d.company.exists \/ shares < 1 THEN Reject(d)
    ELSE IF Available(d, "sell") < shares THEN Reject(d)
    ELSE IF d.cash[user_id] < worst_cost(d, shares) THEN Reject(d)
    ELSE MarketBuyPlaced(place_limit_order(update_cash(d, user_id, -worst_cost(d, shares)),
                                           user_id, "buy", MARKET_BUY_SENTINEL, shares, 0),
                         user_id, worst_cost(d, shares))

\* The unfilled remainder of order_id (0 when the row is gone).
Unfilled(d, order_id) ==
    IF \A o \in d.orders : ~(o.id = order_id /\ o.remaining > 0) THEN 0
    ELSE (CHOOSE o \in d.orders : o.id = order_id /\ o.remaining > 0).remaining

\* The unfilled shares of a market sell go back to the holdings.
ReturnShares(d, user_id, unfilled) ==
    IF unfilled > 0 THEN update_holdings(d, user_id, unfilled, NoPrice) ELSE d

MarketSellPlaced(p, user_id) ==
    Done(ReturnShares(DiscardRemainder(p.d, p.order_id), user_id,
                      Unfilled(p.d, p.order_id)),
         p.order_id, p.fills)

\* msell(channel, shares) by `user_id`.
market_sell(d, user_id, shares) ==
    IF ~d.company.exists \/ shares < 1 THEN Reject(d)
    ELSE IF d.holdings[user_id].quantity < shares THEN Reject(d)
    ELSE IF Available(d, "buy") < shares THEN Reject(d)
    ELSE MarketSellPlaced(place_limit_order(update_holdings(d, user_id, -shares, NoPrice),
                                            user_id, "sell", MARKET_SELL_SENTINEL,
                                            shares, 0),
                          user_id)

\* The refund of a cancelled order: int(price * remaining) cash for a buy, the
\* remaining shares for a sell.
cancel_refund(d, row) ==
    IF row.side = "buy"
    THEN update_cash(d, row.user_id, TruncDiv(row.price * row.remaining, 100))
    ELSE update_holdings(d, row.user_id, row.remaining, NoPrice)

CancelRow(d, row) == Done(DeleteOrders(cancel_refund(d, row), {row.id}, "cancelled", -1),
                          row.id, <<>>)

\* cancel without the check of the owner.
cancel_any_owner(d, user_id, order_id) ==
    IF \A o \in d.orders : o.id # order_id THEN Reject(d)
    ELSE CancelRow(d, CHOOSE o \in d.orders : o.id = order_id)

\* cancel(order_id) by `user_id`.
cancel(d, user_id, order_id) ==
    IF \A o \in d.orders : ~(o.id = order_id /\ o.user_id = user_id) THEN Reject(d)
    ELSE CancelRow(d, CHOOSE o \in d.orders : o.id = order_id /\ o.user_id = user_id)

\* ---------------------------------------------------------------- revenue
\* on_message: the weighted character count `delta` of a message is added to
\* the row of this week (INSERT ... ON CONFLICT DO UPDATE).
on_message(d, delta) ==
    IF ~d.company.exists THEN d
    ELSE [d EXCEPT !.revenue = [week |-> week_start(d.today),
                                accumulated |-> accumulated_revenue(d) + delta]]

\* The dividend rounded to the nearest unit.
payout_of_nearest(actual_revenue, pct, qty, total_shares) ==
    RoundDiv(actual_revenue * pct * qty, 100 * total_shares)

\* The dividend of a holder of qty shares: int(dividends_total * qty / total_shares)
\* with dividends_total = actual_revenue * dividend_pct (pct in percent).
payout_of(actual_revenue, pct, qty, total_shares) ==
    TruncDiv(actual_revenue * pct * qty, 100 * total_shares)

\* The payout of user u in a settlement of actual_revenue (0: not paid).
payout(d, u, actual_revenue) ==
    IF d.holdings[u].quantity > 0 /\ actual_revenue * d.dividend_pct > 0
    THEN Max(payout_of(actual_revenue, d.dividend_pct, d.holdings[u].quantity,
                       d.company.total_shares), 0)
    ELSE 0

\* The dividend loop and the UPDATE of last_revenue.  The history keeps one
\* entry per run: the week, the revenue and what each user was paid.
pay_dividends(d, actual_revenue) ==
    [d EXCEPT !.cash = [u \in Users |-> @[u] + payout(d, u, actual_revenue)],
              !.company.last_revenue = actual_revenue,
              !.settlements = Append(@, [week |-> week_start(d.today),
                                         revenue |-> actual_revenue,
                                         payouts |-> [u \in Users |->
                                                        payout(d, u, actual_revenue)]])]

\* The fair-price update of a settlement, against the last_revenue read at
\* the start of the run.
settle_fair(d, new_fair, last_revenue) ==
    IF d.mm.exists /\ last_revenue > 0
    THEN [d EXCEPT !.mm.fair_price = new_fair, !.company.fair_price = new_fair]
    ELSE d

\* settle_weekly_revenue up to its second commit: dividends, last_revenue and
\* the fair-price update.
SettleUpdates(d, actual_revenue) ==
    settle_fair(pay_dividends(d, actual_revenue),
                compute_fair_price(d.mm.fair_price, actual_revenue,
                                   d.company.last_revenue),
                d.company.last_revenue)

SettleWith(d, actual_revenue) == refresh_mm_quotes(SettleUpdates(d, actual_revenue))

\* settle_weekly_revenue; noise is random.uniform(0.95, 1.05) in percent.
settle_weekly_revenue(d, noise) ==
    IF ~d.company.exists THEN d
    ELSE SettleWith(d, RoundDiv(accumulated_revenue(d) * noise, 100))

\* ------------------------------------------------------------ listing
\* ipo(channel, price): price in pips.
ipo(d, price) ==
    IF price <= 0 \/ d.company.exists THEN d
    ELSE refresh_mm_quotes(
           [d EXCEPT !.company = [exists |-> TRUE, ipo_price |-> price,
                                  fair_price |-> price, last_revenue |-> 0,
                                  total_shares |-> IPO_TOTAL_SHARES],
                     !.mm = [exists |-> TRUE, cash |-> MM_STARTING_CASH,
                             inventory |-> MM_STARTING_SHARES, fair_price |-> price,
                             volatility |-> DEFAULT_VOLATILITY],
                     !.holdings[MM_USER_ID] = [quantity |-> MM_STARTING_SHARES,
                                               avg_cost |-> price],
                     !.clock = @ + 1])

\* The DELETEs of delist other than the one of orders.
delete_listing(d) ==
    [d EXCEPT !.company = NoRow, !.mm = NoRow,
              !.holdings = [u \in Users \cup {MM_USER_ID} |->
                              [quantity |-> 0, avg_cost |-> 0]],
              !.trades = <<>>,
              !.revenue = [week |-> -1, accumulated |-> 0]]

\* The refunds of cancel for every order of S, one after another.
RECURSIVE RefundAll(_, _)
RefundAll(d, S) ==
    IF S = {} THEN d
    ELSE RefundAll(cancel_refund(d, CHOOSE o \in S : TRUE),
                   {x \in S : x # CHOOSE o \in S : TRUE})

\* delist that first returns the cash reserved by the users' resting buys.
delist_refunds(d) ==
    IF ~d.company.exists THEN d
    ELSE delete_listing(DeleteOrders(RefundAll(d, {o \in d.orders :
                                                      o.is_mm = 0 /\ o.side = "buy"}),
                                     {o.id : o \in d.orders}, "delisted", -1))

\* delist without its DELETE FROM orders.
delist_keeps_orders(d) ==
    IF ~d.company.exists THEN d ELSE delete_listing(d)

\* delist(channel): every row of the channel is deleted.
delist(d) ==
    IF ~d.company.exists THEN d
    ELSE delete_listing(DeleteOrders(d, {o.id : o \in d.orders}, "delisted", -1))

\* ------------------------------------------------------------ specification
FpIdle == [old_fair |-> 0, estimated_revenue |-> 0, last_revenue |-> 0,
           result |-> 0, called |-> FALSE]

\* The coroutines followed one await at a time: two command handlers and the
\* settlement loop (task 0).  A coroutine that has not started is idle.
Submitters == {1, 2}
SETTLER == 0
TaskIds == Submitters \cup {SETTLER}
IdleTask == [pc |-> "idle", order |-> OrderRow(0, 0, "buy", 0, 0, 0, 0), typed |-> 0,
             remaining |-> 0, book |-> <<>>, i |-> 0, fills |-> <<>>, seen |-> NoRow]

NoOp == [op |-> "none", user_id |-> 0, shares |-> 0, price |-> 0, order_id |-> 0,
         fills |-> <<>>]

\* The database of a bot that has just been started on `day`.
EmptyDB(c, day) ==
    [company |-> NoRow, mm |-> NoRow, orders |-> {}, nextId |-> 1, clock |-> 1,
     cash |-> c,
     holdings |-> [u \in Users \cup {MM_USER_ID} |-> [quantity |-> 0, avg_cost |-> 0]],
     trades |-> <<>>, revenue |-> [week |-> -1, accumulated |-> 0], today |-> day,
     dividend_pct |-> 10, closed |-> {}, settlements |-> <<>>]

\* The first state: the channel has been listed by ipo, and user 1 has bought
\* `seed` shares with mbuy (none when seed = 0).
SeededDB(c, day, price, seed) ==
    IF seed = 0 THEN ipo(EmptyDB(c, day), price)
    ELSE market_buy(ipo(EmptyDB(c, day), price), 1, seed).d

\* The variables hold the database d.
Holds(d) ==
    /\ company = d.company
    /\ mm = d.mm
    /\ orders = d.orders
    /\ nextId = d.nextId
    /\ clock = d.clock
    /\ cash = d.cash
    /\ holdings = d.holdings
    /\ trades = d.trades
    /\ revenue = d.revenue
    /\ today = d.today
    /\ dividend_pct = d.dividend_pct
    /\ closed = d.closed
    /\ settlements = d.settlements
    /\ last = [NoOp EXCEPT !.op = "init"] @@ [pre |-> d]
    /\ ops = 0
    /\ tasks = [t \in TaskIds |-> IdleTask]

InitDB ==
    \E c \in [Users -> CashInputs], day \in StartDays, price \in IpoPrices,
       seed \in SeedShares :
        \E d \in {SeededDB(c, day, price, seed)} : Holds(d)

Init == InitDB /\ fp = FpIdle

\* The handler returned d: its writes become the state.
Commit(d, what) ==
    /\ company' = d.company
    /\ mm' = d.mm
    /\ orders' = d.orders
    /\ nextId' = d.nextId
    /\ clock' = d.clock
    /\ cash' = d.cash
    /\ holdings' = d.holdings
    /\ trades' = d.trades
    /\ revenue' = d.revenue
    /\ today' = d.today
    /\ dividend_pct' = d.dividend_pct
    /\ closed' = d.closed
    /\ settlements' = d.settlements
    /\ last' = what @@ [pre |-> DB]
    /\ ops' = ops + 1
    /\ UNCHANGED <<fp, tasks>>

\* A command whose handler returned r: a rejection writes nothing.
Command(r, op, user_id, shares, price) ==
    /\ ops < MaxOps
    /\ IF r.ok
       THEN Commit(r.d, [op |-> op, user_id |-> user_id, shares |-> shares,
                         price |-> price, order_id |-> r.order_id, fills |-> r.fills])
       ELSE UNCHANGED vars

LimitBuy ==
    \E u \in Users, q \in ShareInputs, p \in PriceInputs :
        Command(limitbuy(DB, u, q, p), "limitbuy", u, q, p)

LimitSell ==
    \E u \in Users, q \in ShareInputs, p \in PriceInputs :
        Command(limitsell(DB, u, q, p), "limitsell", u, q, p)

MarketBuy ==
    \E u \in Users, q \in ShareInputs :
        Command(market_buy(DB, u, q), "mbuy", u, q, 0)

MarketSell ==
    \E u \in Users, q \in ShareInputs :
        Command(market_sell(DB, u, q), "msell", u, q, 0)

Cancel ==
    \E u \in Users, id \in 1..nextId :
        Command(cancel(DB, u, id), "cancel", u, 0, 0)

Ipo ==
    \E p \in IpoPrices :
        /\ ops < MaxOps
        /\ ~company.exists
        /\ Commit(ipo(DB, p), [NoOp EXCEPT !.op = "ipo"])

\* The history of deleted rows is kept per listing: it goes with the trades.
Delist ==
    /\ ops < MaxOps
    /\ company.exists
    /\ Commit([delist(DB) EXCEPT !.closed = {}], [NoOp EXCEPT !.op = "delist"])

\* hourly_mm_refresh_loop: every listed company is re-quoted.
HourlyMmRefresh ==
    /\ ops < MaxOps
    /\ company.exists
    /\ Commit(refresh_mm_quotes(DB), [NoOp EXCEPT !.op = "hourly"])

\* weekly_settlement_loop: runs every day at 23:55, and settles on Sundays.
WeeklySettlement ==
    \E noise \in NoiseInputs :
        /\ ops < MaxOps
        /\ today % 7 = 6
        /\ company.exists
        /\ \A i \in 1..Len(settlements) : settlements[i].week # week_start(today)
        /\ Commit(settle_weekly_revenue(DB, noise), [NoOp EXCEPT !.op = "settle"])

\* settle_weekly_revenue run again for a week it has already settled.
RerunSettlement ==
    \E noise \in NoiseInputs :
        /\ ops < MaxOps
        /\ company.exists
        /\ \E i \in 1..Len(settlements) : settlements[i].week = week_start(today)
        /\ Commit(settle_weekly_revenue(DB, noise), [NoOp EXCEPT !.op = "resettle"])

OnMessage ==
    \E delta \in RevenueInputs :
        /\ ops < MaxOps
        /\ company.exists
        /\ Commit(on_message(DB, delta), [NoOp EXCEPT !.op = "message"])

\* Midnight: the calendar day changes.
NextDay ==
    /\ ops < MaxOps
    /\ Commit([DB EXCEPT !.today = today + 1], [NoOp EXCEPT !.op = "midnight"])

Next ==
    \/ LimitBuy
    \/ LimitSell
    \/ MarketBuy
    \/ MarketSell
    \/ Cancel
    \/ Ipo
    \/ Delist
    \/ HourlyMmRefresh
    \/ WeeklySettlement
    \/ RerunSettlement
    \/ OnMessage
    \/ NextDay

Spec == Init /\ [][Next]_vars

\* ------------------------------------------- compute_fair_price on its own
\* The arguments of one call of compute_fair_price: prices in pips, revenues
\* in whole units.
FairInputs     == {100, 500000, 1000000, 1234500}
RevenueLevels  == {0, 5, 9, 10, 11, 12, 20, 40}
LastRevenues   == {-10, 0, 5, 10}

InitFair ==
    /\ Holds(EmptyDB([u \in Users |-> 0], 5))
    /\ \E o \in FairInputs, r \in RevenueLevels, l \in LastRevenues :
          fp = [old_fair |-> o, estimated_revenue |-> r, last_revenue |-> l,
                result |-> 0, called |-> FALSE]

CallComputeFairPrice ==
    /\ ~fp.called
    /\ fp' = [fp EXCEPT !.result = compute_fair_price(fp.old_fair, fp.estimated_revenue,
                                                      fp.last_revenue),
                        !.called = TRUE]
    /\ UNCHANGED <<company, mm, orders, nextId, clock, cash, holdings, trades, revenue,
                   today, dividend_pct, closed, settlements, last, ops, tasks>>

NextFair == CallComputeFairPrice

SpecFair == InitFair /\ [][NextFair]_vars

\* ----------------------------------------------- the settlement on its own
\* The first state: the channel is listed, user 1 holds two shares, and the
\* messages of the week so far have been counted.  Only the revenue counter,
\* the calendar and the two task loops run.
InitSettle ==
    /\ fp = FpIdle
    /\ \E c \in [Users -> CashInputs], day \in StartDays, price \in IpoPrices,
          delta \in RevenueInputs :
           \E d \in {on_message(SeededDB(c, day, price, 2), delta)} : Holds(d)

NextSettle ==
    \/ OnMessage
    \/ WeeklySettlement
    \/ RerunSettlement
    \/ HourlyMmRefresh
    \/ NextDay

SpecSettle == InitSettle /\ [][NextSettle]_vars

\* ------------------------------------------ a limit price inside the spread
\* A typed price (mills) between the resting sell of a user and the ask of
\* the MM.
NearPrices == {93050}

\* User 1 has bought two shares and offers one of them at 91.996 (it rests at
\* 92.00, below the ask of the MM).
InitCross ==
    /\ fp = FpIdle
    /\ \E c \in [Users -> CashInputs], day \in StartDays, price \in IpoPrices :
          \E d \in {limitsell(SeededDB(c, day, price, 2), 1, 1, 91996).d} : Holds(d)

LimitBuyNear ==
    \E u \in Users, q \in ShareInputs, p \in NearPrices :
        Command(limitbuy(DB, u, q, p), "limitbuy", u, q, p)

NextCross ==
    \/ LimitBuyNear
    \/ LimitSell
    \/ MarketSell
    \/ Cancel
    \/ HourlyMmRefresh

SpecCross == InitCross /\ [][NextCross]_vars

\* ------------------------------------------------ handlers, await by await
\* The coroutines share one connection: what one has written, committed or
\* not, the others read.  A submitter t is the limitbuy or limitsell of user t;
\* the actions are the stretches of code between awaits (several awaits are
\* taken together where no claim depends on them).

\* An IPO at the minimum tick, in pips.
PennyPrices == {100}

\* A market listed at 0.01 that has settled one week of revenue, on the Sunday
\* of the following week, in which nothing has been posted.
PennyDB(c, price, delta, noise) ==
    [settle_weekly_revenue(on_message(ipo(EmptyDB(c, 6), price), delta), noise)
        EXCEPT !.today = 13]

\* The states the steps start from: a Sunday on which user 1 holds one share
\* and offers another at 91.996 while revenue has come in, and the penny market.
InitSteps ==
    /\ fp = FpIdle
    /\ \E c \in [Users -> CashInputs], day \in {x \in StartDays : x % 7 = 6},
          price \in IpoPrices, penny \in PennyPrices, delta \in RevenueInputs,
          noise \in {x \in NoiseInputs : x > 100} :
          \E d \in {on_message(limitsell(SeededDB(c, day, price, 2), 1, 1, 91996).d,
                               delta),
                    PennyDB(c, penny, delta, noise)} : Holds(d)

\* The writes of one stretch of code.
Store(d) ==
    /\ company' = d.company
    /\ mm' = d.mm
    /\ orders' = d.orders
    /\ nextId' = d.nextId
    /\ clock' = d.clock
    /\ cash' = d.cash
    /\ holdings' = d.holdings
    /\ trades' = d.trades
    /\ revenue' = d.revenue
    /\ today' = d.today
    /\ dividend_pct' = d.dividend_pct
    /\ closed' = d.closed
    /\ settlements' = d.settlements
    /\ UNCHANGED <<last, ops, fp>>

NoWrite == Store(DB)

\* The row book[i] of the snapshot of task t, and the quantity it fills.
RowOf(t) == tasks[t].book[tasks[t].i]
QtyOf(t) == fill_qty(tasks[t].remaining, RowOf(t))

\* limitbuy up to the INSERT of place_limit_order and its commit.
SubmitBuy(t) ==
    \E q \in ShareInputs, p \in PriceInputs :
        /\ tasks[t].pc = "idle"
        /\ limitbuy(DB, t, q, p).ok
        /\ Store(insert_order(update_cash(DB, t, -limitbuy_cost(p, q)), t, "buy", p, q, 0))
        /\ tasks' = [tasks EXCEPT ![t] = [IdleTask EXCEPT !.pc = "placed",
                                                          !.order.id = nextId,
                                                          !.typed = p]]

\* limitsell up to the INSERT of place_limit_order and its commit.
SubmitSell(t) ==
    \E q \in ShareInputs, p \in PriceInputs :
        /\ tasks[t].pc = "idle"
        /\ limitsell(DB, t, q, p).ok
        /\ Store(insert_order(update_holdings(DB, t, -q, NoPrice), t, "sell", p, q, 0))
        /\ tasks' = [tasks EXCEPT ![t] = [IdleTask EXCEPT !.pc = "placed",
                                                          !.order.id = nextId,
                                                          !.typed = p]]

\* match_orders: the SELECT of the new order and the SELECT of the rows it may
\* match, kept as the list the loop runs over.
SelectBook(t) ==
    /\ tasks[t].pc = "placed"
    /\ NoWrite
    /\ IF \A o \in orders : o.id # tasks[t].order.id
       THEN tasks' = [tasks EXCEPT ![t].pc = "matched"]
       ELSE \E o \in {x \in orders : x.id = tasks[t].order.id} :
               tasks' = [tasks EXCEPT
                           ![t].pc = "loop",
                           ![t].order = o,
                           ![t].remaining = o.remaining,
                           ![t].book = Sorted(Eligible(DB, o),
                                              IF o.side = "buy" THEN "sell" ELSE "buy"),
                           ![t].i = 1]

\* One iteration, first part: execute_trade of row i of the snapshot, up to
\* its SELECT of mm_state.
Trade(t) ==
    /\ tasks[t].pc = "loop"
    /\ tasks[t].i <= Len(tasks[t].book)
    /\ tasks[t].remaining > 0
    /\ Store(TradeDeliver(DB, tasks[t].order, RowOf(t), tasks[t].remaining, QtyOf(t)))
    /\ tasks' = [tasks EXCEPT ![t].pc = "nudging", ![t].seen = DB]

\* The two UPDATEs that end execute_trade: the fair price read by its
\* get_mm_state, nudged, is written to mm_state and to companies.
Nudge(t) ==
    /\ tasks[t].pc = "nudging"
    /\ Store(nudge_fair(DB, nudged_fair(tasks[t].seen.mm.fair_price,
                                        fill_price(tasks[t].order, RowOf(t)))))
    /\ tasks' = [tasks EXCEPT ![t].pc = "traded", ![t].seen = NoRow]

\* One iteration, second half: the UPDATE/DELETE of the resting order with the
\* remaining of the snapshot, and fills.append.
UpdateResting(t) ==
    /\ tasks[t].pc = "traded"
    /\ Store(SetRemaining(DB, RowOf(t).id, RowOf(t).remaining - QtyOf(t)))
    /\ tasks' = [tasks EXCEPT
                   ![t].pc = "loop",
                   ![t].remaining = @ - QtyOf(t),
                   ![t].fills = Append(@, FillEntry(tasks[t].order, RowOf(t), QtyOf(t))),
                   ![t].i = @ + 1]

\* The loop is over: the UPDATE/DELETE of the new order and the commit.
CloseOrder(t) ==
    /\ tasks[t].pc = "loop"
    /\ tasks[t].i > Len(tasks[t].book) \/ tasks[t].remaining <= 0
    /\ Store(SetRemaining(DB, tasks[t].order.id, tasks[t].remaining))
    /\ tasks' = [tasks EXCEPT ![t].pc = "matched"]

\* The INSERTs and UPDATEs of a refresh_mm_quotes that read the database when
\* it was `seen` and would have left it as r, applied to the database d as it
\* is now: the quotes computed then, with the ids and the time of now.
PostSeen(d, seen, r) ==
    [d EXCEPT
       !.orders  = @ \cup {[o EXCEPT !.id = d.nextId + (@ - seen.nextId),
                                     !.created_at = d.clock]
                           : o \in {x \in r.orders : x.is_mm = 1}},
       !.nextId  = @ + (r.nextId - seen.nextId),
       !.clock   = @ + 1,
       !.mm      = [@ EXCEPT !.fair_price = r.mm.fair_price,
                             !.volatility = r.mm.volatility],
       !.company = [@ EXCEPT !.fair_price = r.company.fair_price]]

\* The re-quote at the end of match_orders, first half: the reads of
\* refresh_mm_quotes and cancel_mm_orders.
RequoteCancel(t) ==
    /\ tasks[t].pc = "matched"
    /\ tasks[t].fills # <<>>
    /\ Store(cancel_mm_orders(DB))
    /\ tasks' = [tasks EXCEPT ![t].pc = "requoting", ![t].seen = DB]

\* The re-quote, second half: the INSERTs, the UPDATEs and the commit.
RequotePost(t) ==
    /\ tasks[t].pc = "requoting"
    /\ Store(PostSeen(DB, tasks[t].seen, refresh_mm_quotes(tasks[t].seen)))
    /\ tasks' = [tasks EXCEPT ![t].pc = "requoted", ![t].seen = NoRow]

\* An INSERT of the re-quote raises: the exception leaves refresh_mm_quotes,
\* match_orders, place_limit_order and the command.
FailRequote(t) ==
    /\ tasks[t].pc = "requoting"
    /\ NoWrite
    /\ tasks' = [tasks EXCEPT ![t].pc = "requote_failed", ![t].seen = NoRow]

\* match_orders has returned: for a buy, the refund of the price improvement
\* by limitbuy.
Return(t) ==
    /\ tasks[t].pc = "requoted" \/ (tasks[t].pc = "matched" /\ tasks[t].fills = <<>>)
    /\ Store(IF tasks[t].order.side = "buy"
             THEN Refund(DB, t, limitbuy_savings(tasks[t].typed, tasks[t].fills))
             ELSE DB)
    /\ tasks' = [tasks EXCEPT ![t].pc = "done"]

\* The statement awaited after execute_trade raises: the handler is left where
\* it is (no handler catches, nothing rolls back), and the writes made so far
\* stay in the connection that every coroutine uses.
Fail(t) ==
    /\ tasks[t].pc = "traded"
    /\ NoWrite
    /\ tasks' = [tasks EXCEPT ![t].pc = "failed"]

NextSteps ==
    \/ \E t \in Submitters : SubmitBuy(t)
    \/ \E t \in Submitters : SubmitSell(t)
    \/ \E t \in Submitters : SelectBook(t)
    \/ \E t \in Submitters : Trade(t)
    \/ \E t \in Submitters : Nudge(t)
    \/ \E t \in Submitters : UpdateResting(t)
    \/ \E t \in Submitters : CloseOrder(t)
    \/ \E t \in Submitters : RequoteCancel(t)
    \/ \E t \in Submitters : RequotePost(t)
    \/ \E t \in Submitters : FailRequote(t)
    \/ \E t \in Submitters : Return(t)
    \/ \E t \in Submitters : Fail(t)

SpecSteps == InitSteps /\ [][NextSteps]_vars

\* ------------------------------------------- the weekly loop, day after day
\* The last day the calendar reaches.
LastDay == 20

\* weekly_settlement_loop fires at 23:55 of a Sunday (once a day, and it
\* returns at once on the other days): settle_weekly_revenue up to the commit
\* of the fair-price update.
SettleUpdate ==
    \E noise \in NoiseInputs :
        /\ tasks[SETTLER].pc = "idle"
        /\ company.exists
        /\ today % 7 = 6
        /\ \A i \in 1..Len(settlements) : settlements[i].week # week_start(today)
        /\ Store(SettleUpdates(DB, RoundDiv(accumulated_revenue(DB) * noise, 100)))
        /\ tasks' = [tasks EXCEPT ![SETTLER].pc = "updated"]

\* The refresh_mm_quotes at the end of settle_weekly_revenue.
SettleRequote ==
    /\ tasks[SETTLER].pc = "updated"
    /\ \E d \in {refresh_mm_quotes(DB)} : Store(d)
    /\ tasks' = [tasks EXCEPT ![SETTLER].pc = "idle"]

\* settle_weekly_revenue has run its dividend loop and the UPDATE that follows
\* raises: nothing catches, nothing rolls back, the credits stay in the
\* connection, and the loop of discord.ext.tasks ends with the exception.
SettleFails ==
    \E noise \in NoiseInputs :
        /\ tasks[SETTLER].pc = "idle"
        /\ company.exists
        /\ today % 7 = 6
        /\ \A i \in 1..Len(settlements) : settlements[i].week # week_start(today)
        /\ Store([DB EXCEPT !.cash = pay_dividends(DB, RoundDiv(accumulated_revenue(DB)
                                                                 * noise, 100)).cash])
        /\ tasks' = [tasks EXCEPT ![SETTLER].pc = "failed"]

\* Midnight, whether the bot is running or not.
Midnight ==
    /\ today < LastDay
    /\ Store([DB EXCEPT !.today = @ + 1])
    /\ UNCHANGED tasks

NextWeek ==
    \/ SettleUpdate
    \/ SettleRequote
    \/ SettleFails
    \/ Midnight
    \/ OnMessage

SpecWeek == InitSteps /\ [][NextWeek]_vars

\* The loop fires when its time has come and runs on; the days pass.
NextTick ==
    \/ SettleUpdate
    \/ SettleRequote
    \/ Midnight

SpecWeekFair ==
    /\ InitSteps
    /\ [][NextTick]_vars
    /\ WF_vars(SettleUpdate)
    /\ WF_vars(SettleRequote)
    /\ WF_vars(Midnight)

\* ------------------------------------------------ listings at other prices
\* The price typed with ipo, in pips: 100.00 and 350.84.
ListingPrices == {1000000, 3508400}

InitListing ==
    /\ fp = FpIdle
    /\ \E c \in [Users -> CashInputs], day \in StartDays :
           \E d \in {EmptyDB(c, day)} : Holds(d)

IpoAt ==
    \E p \in ListingPrices :
        /\ ops < MaxOps
        /\ ~company.exists
        /\ Commit(ipo(DB, p), [NoOp EXCEPT !.op = "ipo"])

NextListing ==
    \/ IpoAt
    \/ Delist
    \/ HourlyMmRefresh
    \/ OnMessage
    \/ MarketBuy
    \/ NextDay

SpecListing == InitListing /\ [][NextListing]_vars

\* --------------------------------------- block trades at a high price
\* The price typed with ipo, in pips: 42970.65.
BlockPrices == {429706500}
\* the shares of a block order
BlockShares == {3, 97}
\* the price typed with a block's limit sell, in mills: 40000.00
BlockAsks == {40000000}
\* economy.cash of a user who can pay for a block
BlockCash == {4000000}

\* The first state: the channel has been listed by ipo.
InitBlock ==
    /\ fp = FpIdle
    /\ \E c \in [Users -> BlockCash], day \in StartDays, price \in BlockPrices :
           \E d \in {ipo(EmptyDB(c, day), price)} : Holds(d)

IpoBlock ==
    \E p \in BlockPrices :
        /\ ops < MaxOps
        /\ ~company.exists
        /\ Commit(ipo(DB, p), [NoOp EXCEPT !.op = "ipo"])

BlockBuy ==
    \E u \in Users, q \in BlockShares :
        Command(market_buy(DB, u, q), "mbuy", u, q, 0)

BlockSell ==
    \E u \in Users, q \in BlockShares :
        Command(market_sell(DB, u, q), "msell", u, q, 0)

BlockLimitSell ==
    \E u \in Users, q \in BlockShares, p \in BlockAsks :
        Command(limitsell(DB, u, q, p), "limitsell", u, q, p)

NextBlock ==
    \/ IpoBlock
    \/ Delist
    \/ BlockBuy
    \/ BlockSell
    \/ BlockLimitSell
    \/ Cancel
    \/ HourlyMmRefresh

SpecBlock == InitBlock /\ [][NextBlock]_vars

\* ------------------------------------- two commands of one user, by await
\* Both submitters are coroutines of the same user.  A handler is followed
\* from its balance check to its reservation; from there to its end it runs
\* as a whole.
Reserver == 1

InitReserve ==
    /\ fp = FpIdle
    /\ \E c \in [Users -> CashInputs], day \in StartDays, price \in IpoPrices :
           \E d \in {SeededDB(c, day, price, 2)} : Holds(d)

\* limitbuy up to `if cash < cost: return`: the check has passed.
CheckBuy(t) ==
    \E q \in ShareInputs, p \in PriceInputs :
        /\ tasks[t].pc = "idle"
        /\ limitbuy(DB, Reserver, q, p).ok
        /\ NoWrite
        /\ tasks' = [tasks EXCEPT ![t] = [IdleTask EXCEPT
                        !.pc = "checked", !.typed = p,
                        !.order = OrderRow(0, Reserver, "buy", Round2(p), q, 0, 0)]]

\* limitsell up to `if qty < shares: return`: the check has passed.
CheckSell(t) ==
    \E q \in ShareInputs, p \in PriceInputs :
        /\ tasks[t].pc = "idle"
        /\ limitsell(DB, Reserver, q, p).ok
        /\ NoWrite
        /\ tasks' = [tasks EXCEPT ![t] = [IdleTask EXCEPT
                        !.pc = "checked", !.typed = p,
                        !.order = OrderRow(0, Reserver, "sell", Round2(p), q, 0, 0)]]

\* limitbuy from update_cash(-cost) on.
ReserveBuy(t) ==
    /\ tasks[t].pc = "checked"
    /\ tasks[t].order.side = "buy"
    /\ \E d \in {LimitBuyPlaced(
                    place_limit_order(
                        update_cash(DB, Reserver,
                                    -limitbuy_cost(tasks[t].typed, tasks[t].order.quantity)),
                        Reserver, "buy", tasks[t].typed, tasks[t].order.quantity, 0),
                    Reserver, tasks[t].typed).d} : Store(d)
    /\ tasks' = [tasks EXCEPT ![t].pc = "done"]

\* limitsell from update_holdings(-shares) on.
ReserveSell(t) ==
    /\ tasks[t].pc = "checked"
    /\ tasks[t].order.side = "sell"
    /\ \E d \in {LimitSellPlaced(
                    place_limit_order(
                        update_holdings(DB, Reserver, -tasks[t].order.quantity, NoPrice),
                        Reserver, "sell", tasks[t].typed, tasks[t].order.quantity, 0)).d} :
           Store(d)
    /\ tasks' = [tasks EXCEPT ![t].pc = "done"]

NextReserve ==
    \/ \E t \in Submitters : CheckBuy(t)
    \/ \E t \in Submitters : CheckSell(t)
    \/ \E t \in Submitters : ReserveBuy(t)
    \/ \E t \in Submitters : ReserveSell(t)

SpecReserve == InitReserve /\ [][NextReserve]_vars

\* ============================================================ properties
\* The rows of `orders` that ever existed and are known: the book and the
\* history of deleted rows.
AllOrderRows == orders \cup {c.row : c \in closed}

\* The trades the last operation recorded.
NewTrades ==
    IF Len(trades) >= Len(last.pre.trades)
    THEN SubSeq(trades, Len(last.pre.trades) + 1, Len(trades))
    ELSE <<>>

\* C1: every order in the book has 0 <= remaining <= quantity, no order rests
\* in the book with remaining 0, and an order deleted as filled ended with
\* remaining exactly 0.
RemainingWithinQuantity ==
    /\ \A o \in orders : 0 < o.remaining /\ o.remaining <= o.quantity
    /\ \A c \in closed : /\ 0 <= c.row.remaining /\ c.row.remaining <= c.row.quantity
                         /\ c.why = "filled" => c.row.remaining = 0

\* A user's resting order has been partially filled and is still in the
\* book, and another order has been filled completely and removed.
PartialFillRests ==
    /\ \E o \in orders : o.is_mm = 0 /\ 0 < o.remaining /\ o.remaining < o.quantity
    /\ \E c \in closed : c.why = "filled" /\ c.row.is_mm = 0

\* The quantity of the trades recorded against order id.
FilledOf(id) ==
    SumSeq([i \in 1..Len(trades) |->
              IF trades[i].h.taker = id \/ trades[i].h.maker = id
              THEN trades[i].quantity ELSE 0])

\* C2: for every order, incoming or resting, in the book or deleted, the
\* quantities of the trades recorded against it sum to quantity - remaining.
FilledEqualsQuantityMinusRemaining ==
    \A o \in AllOrderRows : FilledOf(o.id) = o.quantity - o.remaining

\* An order with two trades against it, and a resting order that was filled
\* in part only.
OrderFilledInTwoTrades ==
    /\ \E o \in AllOrderRows :
          Cardinality({i \in 1..Len(trades) : trades[i].h.taker = o.id}) >= 2
    /\ \E o \in orders : o.is_mm = 0 /\ 0 < FilledOf(o.id) /\ FilledOf(o.id) < o.quantity

\* b comes strictly before m in price-time priority (both on one side).
BetterThan(b, m) ==
    IF m.side = "sell"
    THEN b.price < m.price \/ (b.price = m.price /\ b.created_at < m.created_at)
    ELSE b.price > m.price \/ (b.price = m.price /\ b.created_at < m.created_at)

\* The quantity the first k - 1 fills of the last operation took from order id.
FilledBefore(id, k) ==
    SumSeq([j \in 1..(k - 1) |->
              IF last.fills[j].maker = id THEN last.fills[j].quantity ELSE 0])

\* C3: price-time priority.  When the last operation filled a resting order m,
\* every resting order of the same side that was better priced, or equally
\* priced and earlier, had been filled completely by the earlier fills.
PriceTimePriority ==
    \A k \in 1..Len(last.fills) :
        \A m \in last.pre.orders, b \in last.pre.orders :
            (/\ m.id = last.fills[k].maker
             /\ b.side = m.side
             /\ b.id # m.id
             /\ BetterThan(b, m))
            => FilledBefore(b.id, k) = b.remaining

\* Two sells rested at the same price; the last operation filled the earlier
\* one, and the later one is still in the book, unfilled.
EarlierOfEqualPriceFilled ==
    \E m \in last.pre.orders, b \in orders :
        /\ m.side = "sell" /\ b.side = "sell"
        /\ m.price = b.price /\ m.created_at < b.created_at
        /\ \E k \in 1..Len(last.fills) : last.fills[k].maker = m.id
        /\ b.remaining = b.quantity

\* The limit of the buy order and of the sell order of a trade.
BuyLimit(t)  == IF t.h.taker_side = "buy" THEN t.h.taker_limit ELSE t.h.maker_limit
SellLimit(t) == IF t.h.taker_side = "sell" THEN t.h.taker_limit ELSE t.h.maker_limit

\* The limits a new trade carries are the ones of the rows: the resting
\* order's row before the operation, and the new order's row (the price of
\* the command rounded to cents, or the sentinel of a market order).
LimitsAreTheRows ==
    \A i \in 1..Len(NewTrades) :
        /\ \E m \in last.pre.orders :
              m.id = NewTrades[i].h.maker /\ m.price = NewTrades[i].h.maker_limit
        /\ NewTrades[i].h.taker = last.order_id
        /\ last.op \in {"limitbuy", "limitsell"} =>
              NewTrades[i].h.taker_limit = Round2(last.price)
        /\ last.op = "mbuy" => NewTrades[i].h.taker_limit = Round2(MARKET_BUY_SENTINEL)
        /\ last.op = "msell" => NewTrades[i].h.taker_limit = Round2(MARKET_SELL_SENTINEL)

\* C4: no worse than the limit.  Every trade's price is <= the limit of its
\* buy order and >= the limit of its sell order, incoming or resting.
NoWorseThanLimit ==
    /\ LimitsAreTheRows
    /\ \A i \in 1..Len(trades) :
          trades[i].price <= BuyLimit(trades[i]) /\ trades[i].price >= SellLimit(trades[i])

\* A limit buy was filled below its limit, and a limit buy whose limit is
\* below the best ask rests unfilled.
FilledBelowLimit ==
    /\ \E i \in 1..Len(trades) :
          trades[i].h.taker_side = "buy" /\ trades[i].price < trades[i].h.taker_limit
          /\ trades[i].h.taker_limit < Round2(MARKET_BUY_SENTINEL)
    /\ \E o \in orders : o.is_mm = 0 /\ o.side = "buy" /\ o.remaining = o.quantity

\* C5: every trade is priced at the resting order's limit, and its quantity
\* is the smaller of what the incoming and the resting order had left.
TradeAtMakerPrice ==
    /\ \A i \in 1..Len(trades) :
          /\ trades[i].price = trades[i].h.maker_limit
          /\ trades[i].quantity = Min(trades[i].h.taker_remaining,
                                      trades[i].h.maker_remaining)
    /\ \A i \in 1..Len(NewTrades) :
          \E m \in last.pre.orders :
              /\ m.id = NewTrades[i].h.maker
              /\ NewTrades[i].price = m.price
              /\ NewTrades[i].h.maker_remaining =
                    m.remaining - FilledBefore(m.id, i)
              /\ NewTrades[i].h.taker_remaining =
                    last.shares - SumSeq([j \in 1..(i - 1) |-> NewTrades[j].quantity])

\* A trade whose incoming order had a different limit than the resting one
\* and wanted more than the resting order had left.
TradeBelowTakerLimit ==
    \E i \in 1..Len(trades) :
        /\ trades[i].h.taker_limit # trades[i].h.maker_limit
        /\ trades[i].h.taker_limit < Round2(MARKET_BUY_SENTINEL)
        /\ trades[i].h.taker_limit > Round2(MARKET_SELL_SENTINEL)
        /\ trades[i].h.taker_remaining > trades[i].h.maker_remaining

\* The sum of f over the users.
UserTotal(f) == SumSeq([u \in 1..Cardinality(Users) |-> f[u]])

\* C6: share conservation.  In a listed market the MM's inventory, the users'
\* holdings and the remaining quantity of the users' resting sell orders add
\* up to total_shares.
ShareConservation ==
    company.exists =>
        mm.inventory
          + UserTotal([u \in Users |-> holdings[u].quantity])
          + SumRemaining({o \in orders : o.side = "sell" /\ o.is_mm = 0})
        = company.total_shares

\* A user holds shares, a user's sell order rests with shares reserved, the MM
\* has bought shares back from a user, and an order has been cancelled.
SharesInAllThreePlaces ==
    /\ company.exists
    /\ \E u \in Users : holdings[u].quantity > 0
    /\ \E o \in orders : o.side = "sell" /\ o.is_mm = 0
    /\ \E i \in 1..Len(trades) : trades[i].buyer_id = MM_USER_ID

\* The cash (cents) of the users, reserved by their resting buys, and of the MM.
TotalCash(d) ==
    100 * SumSeq([u \in 1..Cardinality(Users) |-> d.cash[u]])
      + SumSeq([i \in 1..d.nextId |->
                  IF \E o \in d.orders : o.id = i /\ o.side = "buy" /\ o.is_mm = 0
                  THEN (CHOOSE o \in d.orders : o.id = i).price
                         * (CHOOSE o \in d.orders : o.id = i).remaining
                  ELSE 0])
      + d.mm.cash

\* C7: cash conservation.  A submission, fill or cancel leaves the users' cash
\* plus the cash reserved by their resting buys plus the MM's cash unchanged.
CashConservation ==
    last.op \in {"limitbuy", "limitsell", "mbuy", "msell", "cancel"}
        => TotalCash(DB) = TotalCash(last.pre)

\* C8: a completed limit buy of q at p has cost the buyer the sum of its fills
\* (price x quantity) plus p x the quantity left resting (in mills).
LimitBuyPaysFillsPlusRest ==
    last.op = "limitbuy" =>
        1000 * (last.pre.cash[last.user_id] - cash[last.user_id])
          = 10 * FillCost(last.fills) + last.price * (last.shares - FillQty(last.fills))

\* C9: settle_weekly_revenue run twice for the same week pays each holder's
\* dividend once: a holder paid by one run is paid nothing by a later run for
\* the same week.
SettlementPaysOnce ==
    \A i \in 1..Len(settlements), j \in 1..Len(settlements) :
        (i < j /\ settlements[i].week = settlements[j].week)
            => \A u \in Users : settlements[i].payouts[u] > 0
                                    => settlements[j].payouts[u] = 0

\* C10: compute_fair_price returns old x (1 + 0.3 (R / R_prev - 1)) clamped to
\* [0.92 old, 1.08 old], so it moves by at most 8% of old; R = 2 R_prev gives
\* exactly +8%; and R_prev <= 0 gives old.
FairPriceClamped ==
    fp.called =>
        /\ fp.last_revenue <= 0 => fp.result = fp.old_fair
        /\ fp.last_revenue > 0 =>
              /\ 10 * fp.last_revenue * fp.result
                   = Max((92 * fp.old_fair * fp.last_revenue) \div 10,
                         Min((108 * fp.old_fair * fp.last_revenue) \div 10,
                             fp.old_fair * (7 * fp.last_revenue
                                              + 3 * fp.estimated_revenue)))
              /\ 100 * Abs(fp.result - fp.old_fair) <= 8 * fp.old_fair
              /\ fp.estimated_revenue = 2 * fp.last_revenue
                    => 100 * fp.result = 108 * fp.old_fair

\* compute_fair_price has been called with R = 2 R_prev > 0 and has returned a
\* price above the old one.
RevenueDoubled ==
    /\ fp.called
    /\ fp.last_revenue > 0
    /\ fp.estimated_revenue = 2 * fp.last_revenue
    /\ fp.result > fp.old_fair

\* C11: one complete settlement, the re-quote it ends with included, moves
\* the fair price by at most 8% of what it was before the settlement.
SettlementMoveBounded ==
    last.op \in {"settle", "resettle"} =>
        100 * Abs(company.fair_price - last.pre.company.fair_price)
            <= 8 * last.pre.company.fair_price

\* C12: a settlement of a market whose last_revenue is <= 0 (the first ever)
\* leaves the fair price as it was.
FirstSettlementKeepsFair ==
    (last.op \in {"settle", "resettle"} /\ last.pre.company.last_revenue <= 0) =>
        /\ company.fair_price = last.pre.company.fair_price
        /\ mm.fair_price = last.pre.mm.fair_price

\* C14: cancel on an order id that is not in the book, or on an order of
\* someone else, is refused and changes nothing; so no user can cancel an
\* order of the MM.
RefusedCancelChangesNothing ==
    /\ \A u \in Users, id \in 1..nextId :
          (\A o \in orders : o.id = id => o.user_id # u)
              => ~cancel(DB, u, id).ok /\ cancel(DB, u, id).d = DB
    /\ \A o \in orders : o.is_mm = 1 => \A u \in Users : ~cancel(DB, u, o.id).ok

\* The book holds an order of a user which the other user tries to cancel,
\* an order of the MM, and an order id is already gone from the book.
ForeignOrderInBook ==
    /\ \E o \in orders, u \in Users :
          o.is_mm = 0 /\ o.user_id # u /\ ~cancel(DB, u, o.id).ok
    /\ \E o \in orders : o.is_mm = 1
    /\ \E id \in 1..(nextId - 1) : \A o \in orders : o.id # id

\* The order o of the book before the last operation that the operation named.
NamedRow == CHOOSE o \in last.pre.orders : o.id = last.order_id

\* C15: a cancel by the owner removes the order and returns its unexecuted
\* reservation (limit price x remaining in cash for a buy, the remaining
\* shares for a sell); so a limit order that got no fill, once cancelled,
\* leaves the owner's cash and shares as they were before the submission.
CancelReturnsReservation ==
    /\ last.op = "cancel" =>
          /\ \A o \in orders : o.id # last.order_id
          /\ NamedRow.side = "buy" =>
                100 * (cash[last.user_id] - last.pre.cash[last.user_id])
                    = NamedRow.price * NamedRow.remaining
          /\ NamedRow.side = "sell" =>
                holdings[last.user_id].quantity
                    = last.pre.holdings[last.user_id].quantity + NamedRow.remaining
    /\ \A u \in Users, q \in ShareInputs, p \in PriceInputs :
          /\ (limitbuy(DB, u, q, p).ok /\ limitbuy(DB, u, q, p).fills = <<>>) =>
                /\ cancel(limitbuy(DB, u, q, p).d, u, limitbuy(DB, u, q, p).order_id).ok
                /\ cancel(limitbuy(DB, u, q, p).d, u,
                          limitbuy(DB, u, q, p).order_id).d.cash[u] = cash[u]
          /\ (limitsell(DB, u, q, p).ok /\ limitsell(DB, u, q, p).fills = <<>>) =>
                /\ cancel(limitsell(DB, u, q, p).d, u, limitsell(DB, u, q, p).order_id).ok
                /\ cancel(limitsell(DB, u, q, p).d, u,
                          limitsell(DB, u, q, p).order_id).d.holdings[u].quantity
                      = holdings[u].quantity

\* Prices and quantities a command may carry, valid or not.
AnyPrice == PriceInputs \cup {0, -1000}
AnyShares == ShareInputs \cup {-1}

\* C16: a submission with quantity < 1, a limit order with price <= 0, an
\* order on an unlisted market, a buy whose reservation exceeds the user's
\* cash and a sell of more shares than the user holds are refused, and the
\* refusal changes nothing.
RefusedSubmissionChangesNothing ==
    \A u \in Users, q \in AnyShares, p \in AnyPrice :
        /\ (q < 1 \/ p <= 0 \/ ~company.exists
              \/ (company.exists /\ p * q >= (cash[u] + 1) * 1000))
              => ~limitbuy(DB, u, q, p).ok /\ limitbuy(DB, u, q, p).d = DB
        /\ (q < 1 \/ p <= 0 \/ ~company.exists \/ holdings[u].quantity < q)
              => ~limitsell(DB, u, q, p).ok /\ limitsell(DB, u, q, p).d = DB
        /\ (q < 1 \/ ~company.exists
              \/ (company.exists /\ worst_price(DB) * q >= (cash[u] + 1) * 100))
              => ~market_buy(DB, u, q).ok /\ market_buy(DB, u, q).d = DB
        /\ (q < 1 \/ ~company.exists \/ holdings[u].quantity < q)
              => ~market_sell(DB, u, q).ok /\ market_sell(DB, u, q).d = DB

\* A listed market in which a user has bought shares, can no longer pay for
\* two more, and holds fewer than two.
UserShortOfCashAndShares ==
    /\ company.exists
    /\ \E u \in Users :
          /\ 95000 * 2 >= (cash[u] + 1) * 1000
          /\ holdings[u].quantity = 1
          /\ ~limitbuy(DB, u, 2, 95000).ok
          /\ ~market_sell(DB, u, 2).ok

\* C17: after a market order no order of the submission is in the book; a
\* market buyer has paid the total cost of the fills, which is no more than
\* the reservation; a market seller has every unfilled share back.
MarketOrderNetsFills ==
    /\ last.op \in {"mbuy", "msell"} => \A o \in orders : o.id # last.order_id
    /\ last.op = "mbuy" =>
          /\ 100 * (last.pre.cash[last.user_id] - cash[last.user_id])
                = FillCost(last.fills)
          /\ FillCost(last.fills) <= 100 * worst_cost(last.pre, last.shares)
    /\ last.op = "msell" =>
          holdings[last.user_id].quantity
              = last.pre.holdings[last.user_id].quantity - FillQty(last.fills)

\* C18: when a limit submission returns, the order is either filled and out
\* of the book, or rests with remaining = quantity - filled while no order
\* of the opposite side satisfies its price.
MatchingExhaustive ==
    last.op \in {"limitbuy", "limitsell"} =>
        IF FillQty(last.fills) = last.shares
        THEN \A o \in orders : o.id # last.order_id
        ELSE \E o \in orders :
                /\ o.id = last.order_id
                /\ o.remaining = o.quantity - FillQty(last.fills)
                /\ \A x \in orders :
                      /\ (o.side = "buy" /\ x.side = "sell") => x.price > o.price
                      /\ (o.side = "sell" /\ x.side = "buy") => x.price < o.price

\* C13: in every state the database can be read in, the fair price of a
\* listed market (companies.fair_price and mm_state.fair_price) is at least
\* the minimum tick 0.01: the floor follows every update of the fair price.
FairAtLeastTick ==
    company.exists => company.fair_price >= MIN_PRICE /\ mm.fair_price >= MIN_PRICE

\* Every trade recorded against order id as the resting side.
MakerFilledOf(id) ==
    SumSeq([i \in 1..Len(trades) |->
              IF trades[i].h.maker = id THEN trades[i].quantity ELSE 0])

\* No handler is between two of its awaits.
Quiescent == \A t \in TaskIds : tasks[t].pc \in {"idle", "done", "failed", "requote_failed"}

\* C19: once the handlers have ended, normally or on an error, every recorded
\* trade has its effect on the resting order it filled: the order's remaining
\* is lower by the traded quantity than what the trade found.
TradesHaveTheirEffects ==
    Quiescent =>
        \A i \in 1..Len(trades) : \A o \in AllOrderRows :
            o.id = trades[i].h.maker =>
                o.remaining <= trades[i].h.maker_remaining - trades[i].quantity

\* C20: however two submissions interleave, the quantity traded against a
\* resting order never exceeds its quantity, and once the handlers have
\* returned every order's stored remaining is its quantity minus the quantity
\* traded against it.
MatchingSerialized ==
    (\A t \in TaskIds : tasks[t].pc # "failed") =>
        /\ \A o \in AllOrderRows : MakerFilledOf(o.id) <= o.quantity
        /\ Quiescent => \A o \in AllOrderRows : FilledOf(o.id) = o.quantity - o.remaining

\* The revenue the last run of settle_weekly_revenue settled.
SettledRevenue == settlements[Len(settlements)].revenue

\* C25: a settlement credits every holder floor(pool * shares / total_shares)
\* with pool = settled revenue * dividend_pct; the payouts sum to no more than
\* the pool; the MM's cash and inventory, the holdings and the users' orders
\* are as before.
DividendsProRata ==
    last.op \in {"settle", "resettle"} =>
        /\ \A u \in Users :
              /\ cash[u] >= last.pre.cash[u]
              /\ 100 * company.total_shares * (cash[u] - last.pre.cash[u])
                    <= SettledRevenue * dividend_pct * last.pre.holdings[u].quantity
              /\ SettledRevenue * dividend_pct * last.pre.holdings[u].quantity
                    < 100 * company.total_shares * (cash[u] - last.pre.cash[u] + 1)
        /\ 100 * (UserTotal(cash) - UserTotal(last.pre.cash))
              <= SettledRevenue * dividend_pct
        /\ holdings = last.pre.holdings
        /\ mm.cash = last.pre.mm.cash
        /\ mm.inventory = last.pre.mm.inventory
        /\ {o \in orders : o.is_mm = 0} = {o \in last.pre.orders : o.is_mm = 0}

\* A settlement has paid a holder a dividend that the division truncated.
TruncatedDividendPaid ==
    /\ last.op = "settle"
    /\ \E u \in Users :
          /\ cash[u] > last.pre.cash[u]
          /\ (SettledRevenue * dividend_pct * last.pre.holdings[u].quantity)
                % (100 * company.total_shares) # 0

\* C26: after a settlement last_revenue is the revenue just settled and the
\* accumulator of the settled week is back at zero.
SettlementResetsAccumulator ==
    last.op \in {"settle", "resettle"} =>
        /\ company.last_revenue = SettledRevenue
        /\ accumulated_revenue(DB) = 0

\* Arguments of compute_spread_and_skew and of the quotes: fair prices in
\* pips, volatilities in 1/Scale, inventories and daily volumes in shares.
QuoteFairs       == {100, 10000, 1000000}
QuoteVols        == {MIN_VOLATILITY, DEFAULT_VOLATILITY, 2000}
QuoteInventories == {0, 100, 350, 351, 700, 1000}
QuoteVolumes     == {0, 350, 2000}

\* The posted prices (cents) of the re-quote of a market with these values.
PostedBid(f, v, inv, dv) ==
    RoundDiv(mm_bid(f, compute_spread_and_skew(f, v, inv, dv, IPO_TOTAL_SHARES)[1],
                    compute_spread_and_skew(f, v, inv, dv, IPO_TOTAL_SHARES)[2]), 100)
PostedAsk(f, v, inv, dv) ==
    RoundDiv(mm_ask(f, compute_spread_and_skew(f, v, inv, dv, IPO_TOTAL_SHARES)[1],
                    compute_spread_and_skew(f, v, inv, dv, IPO_TOTAL_SHARES)[2]), 100)

\* C23: the two quotes a re-quote posts have bid >= 0.01 and ask > bid, in the
\* book and, where a re-quote has run, for every fair price, volatility,
\* inventory and volume it could have met.
QuotesOrdered ==
    /\ \A b \in orders, a \in orders :
          (b.is_mm = 1 /\ a.is_mm = 1 /\ b.side = "buy" /\ a.side = "sell"
             /\ b.created_at = a.created_at)
              => b.price >= 1 /\ a.price > b.price
    /\ last.op = "hourly" =>
          \A f \in QuoteFairs, v \in QuoteVols, inv \in QuoteInventories, dv \in QuoteVolumes :
              PostedBid(f, v, inv, dv) >= 1
                  /\ PostedAsk(f, v, inv, dv) > PostedBid(f, v, inv, dv)

\* A re-quote after trades has posted a bid and an ask.
RequotePostedBoth ==
    /\ trades # <<>>
    /\ last.op = "hourly"
    /\ \E b \in orders, a \in orders :
          /\ b.is_mm = 1 /\ a.is_mm = 1 /\ b.side = "buy" /\ a.side = "sell"
          /\ b.created_at = a.created_at
          /\ b \notin last.pre.orders /\ a \notin last.pre.orders

\* Inventories at which the skew is more than the model's resolution.
SkewInventories == QuoteInventories \ {351}

OneFillOneRequote ==
    last.op \in {"limitbuy", "limitsell", "mbuy", "msell"} =>
        /\ \A i \in 1..Len(NewTrades), j \in 1..Len(NewTrades) :
              i # j => NewTrades[i].h.maker # NewTrades[j].h.maker
        /\ \A i \in 1..Len(NewTrades) :
              /\ NewTrades[i].h.taker = last.order_id
              /\ \E o \in last.pre.orders : o.id = NewTrades[i].h.maker
        /\ \A c \in closed \ last.pre.closed :
              c.why = "requote" => c.row.id < last.pre.nextId
        /\ IF NewTrades = <<>>
           THEN {o \in orders : o.is_mm = 1} = {o \in last.pre.orders : o.is_mm = 1}
           ELSE \A o \in orders :
                   o.is_mm = 1 => o.id > last.order_id /\ o.remaining = o.quantity

\* A submission that filled two resting orders and was followed by a re-quote.
TwoFillsThenRequote ==
    /\ last.op \in {"limitbuy", "limitsell", "mbuy", "msell"}
    /\ Len(NewTrades) >= 2
    /\ \E c \in closed \ last.pre.closed : c.why = "requote"
    /\ \E o \in orders : o.is_mm = 1 /\ o.id > last.order_id

\* A submitter takes the step that leads it from pc `from` to pc `to`.
Steps(t, from, to) == tasks[t].pc = from /\ tasks'[t].pc = to

\* A submission SELECTs the book while a re-quote has cancelled the quotes
\* of the MM and not yet posted the new ones.
ReadsHalfRequotedBook ==
    \E t \in Submitters :
        /\ Steps(t, "placed", "loop")
        /\ \E r \in Submitters : tasks[r].pc = "requoting"

\* execute_trade runs against an order of the MM that is no longer in the book.
FillsCancelledQuote ==
    \E i \in (Len(trades) + 1)..Len(trades') :
        /\ MM_USER_ID = (IF trades'[i].h.taker_side = "buy" THEN trades'[i].seller_id
                                                           ELSE trades'[i].buyer_id)
        /\ \A o \in orders : o.id # trades'[i].h.maker

\* C21: the cancel-replace of the MM is atomic for the others: no submission
\* reads the book between the cancel and the posting of a re-quote, and no
\* trade is made against a quote that the re-quote has cancelled.
CancelReplaceAtomic == [][~ReadsHalfRequotedBook /\ ~FillsCancelledQuote]_vars

\* C22: when a re-quote completes, the book holds at most one buy and one
\* sell of the MM, and none that was there before the re-quote posted.
OneQuotePerSide ==
    [][\A t \in Submitters :
          Steps(t, "requoting", "requoted") =>
              /\ Cardinality({o \in orders' : o.is_mm = 1 /\ o.side = "buy"}) <= 1
              /\ Cardinality({o \in orders' : o.is_mm = 1 /\ o.side = "sell"}) <= 1
              /\ \A o \in orders' : o.is_mm = 1 => o \notin orders]_vars

\* C27: a settlement that fails partway leaves no dividend credited and the
\* accumulator as it was.
FailedSettlementCreditsNothing ==
    [][(tasks[SETTLER].pc # "failed" /\ tasks'[SETTLER].pc = "failed")
          => cash' = cash /\ revenue' = revenue]_vars

\* Week w (named by its Monday) has been settled.
Settled(w) == \E i \in 1..Len(settlements) : settlements[i].week = w

\* C28: a week whose Sunday tick was missed is settled once the loop runs
\* again.
MissedTickCaughtUp ==
    \A w \in {0, 7} :
        (company.exists /\ today >= w + 7 /\ tasks[SETTLER].pc = "idle" /\ ~Settled(w))
            ~> Settled(w)

\* What the loop can do for a week that has passed: nothing.  No step gives
\* a settlement entry to a week whose Sunday is over.
PastWeekStaysUnsettled ==
    [][\A w \in {0, 7, 14} : (today >= w + 7 /\ ~Settled(w)) => ~Settled(w)']_vars

\* C29: a limit buy whose re-quote failed has ended as it would have without
\* the failure: the buyer's cash and shares are those of the whole command.
RequoteFailureNotFatal ==
    \A t \in Submitters :
        (/\ tasks[t].pc \in {"done", "requote_failed"}
         /\ tasks[t].order.side = "buy"
         /\ \A r \in TaskIds \ {t} : tasks[r].pc = "idle")
            => /\ cash[t] = limitbuy(last.pre, t, tasks[t].order.quantity,
                                     tasks[t].typed).d.cash[t]
               /\ holdings[t] = limitbuy(last.pre, t, tasks[t].order.quantity,
                                         tasks[t].typed).d.holdings[t]

\* Nothing of the channel is in the database d.
NothingListed(d) ==
    /\ d.company = NoRow
    /\ d.mm = NoRow
    /\ d.orders = {}
    /\ d.trades = <<>>
    /\ \A u \in Users \cup {MM_USER_ID} : d.holdings[u].quantity = 0
    /\ accumulated_revenue(d) = 0

\* C31: after delist the channel has no company, order, holding, MM state,
\* trade (price history) or revenue row, and every submission, cancel,
\* re-quote, settlement or message that follows writes nothing.
DelistCascades ==
    (last.op = "delist" \/ ~company.exists) =>
        /\ NothingListed(DB)
        /\ \A u \in Users, q \in ShareInputs :
              /\ \A p \in PriceInputs : /\ limitbuy(DB, u, q, p) = Reject(DB)
                                        /\ limitsell(DB, u, q, p) = Reject(DB)
              /\ market_buy(DB, u, q) = Reject(DB)
              /\ market_sell(DB, u, q) = Reject(DB)
        /\ \A u \in Users, id \in 1..nextId : cancel(DB, u, id) = Reject(DB)
        /\ refresh_mm_quotes(DB) = DB
        /\ \A noise \in NoiseInputs : settle_weekly_revenue(DB, noise) = DB
        /\ \A delta \in RevenueInputs : on_message(DB, delta) = DB

\* A market with trades, holders and a resting order of a user was delisted.
DelistedBusyMarket ==
    /\ last.op = "delist"
    /\ last.pre.trades # <<>>
    /\ \E u \in Users : last.pre.holdings[u].quantity > 0
    /\ \E o \in last.pre.orders : o.is_mm = 0

\* The fair price f after the nudges of the trades ts[i..], one after another.
RECURSIVE NudgedThrough(_, _, _)
NudgedThrough(f, ts, i) ==
    IF i > Len(ts) THEN f ELSE NudgedThrough(nudged_fair(f, ts[i].price), ts, i + 1)

\* C32: a submission with fills has nudged the fair price once per fill, in
\* the order of the fills, and has then re-quoted from the nudged price; a
\* submission without fills leaves the MM's state, the fair price and the
\* MM's quotes as they were.
FillsNudgeThenRequote ==
    last.op \in {"limitbuy", "limitsell", "mbuy", "msell"} =>
        IF NewTrades = <<>>
        THEN /\ mm = last.pre.mm
             /\ company.fair_price = last.pre.company.fair_price
             /\ {o \in orders : o.is_mm = 1} = {o \in last.pre.orders : o.is_mm = 1}
             /\ \A c \in closed \ last.pre.closed : c.why # "requote"
        ELSE /\ mm.fair_price =
                  requote_fair([last.pre EXCEPT !.mm.fair_price =
                                    NudgedThrough(@, NewTrades, 1)])
             /\ company.fair_price = mm.fair_price
             /\ \A o \in last.pre.orders : o.is_mm = 1 => o \notin orders
             /\ \A o \in orders : o.is_mm = 1 => o.created_at >= last.pre.clock + 1

\* A submission filled against two resting orders at different distances from
\* the fair price, and the fair price has moved.
TwoNudgesMovedFair ==
    /\ last.op \in {"limitbuy", "limitsell", "mbuy", "msell"}
    /\ Len(NewTrades) >= 2
    /\ NewTrades[1].price # NewTrades[2].price
    /\ mm.fair_price # last.pre.mm.fair_price
    /\ \E o \in orders : o.is_mm = 1

\* x lies between a and b.
Between(x, a, b) == (a <= x /\ x <= b) \/ (b <= x /\ x <= a)

\* C33: the nudge of a fill at price p takes the fair price from f to
\* f + 0.02 (p - f), which lies between f and p, and stores it both as the
\* company's fair price and as the MM's.
NudgeTowardsTrade ==
    [][\A t \in Submitters :
          Steps(t, "nudging", "traded") =>
              \E f \in {mm.fair_price},
                 p \in {100 * fill_price(tasks[t].order, RowOf(t))} :
                  /\ Between(mm'.fair_price, f, p)
                  /\ 100 * (mm'.fair_price - f) - 2 * (p - f) \in -50..50
                  /\ company'.fair_price = mm'.fair_price]_vars

\* C34: the quotes of the MM in the book are within its means: the bid's
\* quantity times its price is no more than the MM's cash, the ask's quantity
\* no more than its inventory, and neither is more than 100.
QuotesWithinMeans ==
    \A o \in orders :
        o.is_mm = 1 =>
            /\ o.quantity <= MM_QUOTE_CAP
            /\ o.side = "buy" => o.quantity * o.price <= mm.cash
            /\ o.side = "sell" => o.quantity <= mm.inventory

\* The cash the resting buys of user u hold in reserve: int(price x remaining).
ReservedCash(u) ==
    SumSeq([i \in 1..nextId |->
              IF \E o \in orders : o.id = i /\ o.side = "buy" /\ o.user_id = u /\ o.is_mm = 0
              THEN TruncDiv((CHOOSE o \in orders : o.id = i).price
                              * (CHOOSE o \in orders : o.id = i).remaining, 100)
              ELSE 0])

\* The shares the resting sells of user u hold in reserve.
ReservedShares(u) ==
    SumRemaining({o \in orders : o.side = "sell" /\ o.user_id = u /\ o.is_mm = 0})

\* C35: however two submissions of one user interleave, the user's cash is
\* never negative, no more cash is reserved than the user had and no more
\* shares than the user held, and no share is created.
ReservationRaceFree ==
    /\ \A u \in Users : cash[u] >= 0 /\ holdings[u].quantity >= 0
    /\ ReservedCash(Reserver) <= last.pre.cash[Reserver]
    /\ ReservedShares(Reserver) <= last.pre.holdings[Reserver].quantity
    /\ mm.inventory + UserTotal([u \in Users |-> holdings[u].quantity])
         + SumRemaining({o \in orders : o.side = "sell" /\ o.is_mm = 0})
       = company.total_shares

\* C36: in every listed market the MM's cash is not negative and its
\* inventory lies between 0 and the company's total shares.
MmSolvent ==
    company.exists =>
        /\ mm.cash >= 0
        /\ mm.inventory >= 0
        /\ mm.inventory <= company.total_shares

\* C37: between operations the book is not crossed: every resting buy, the
\* MM's included, is priced strictly below every resting sell.
BookNeverCrossed ==
    \A b \in orders, a \in orders :
        (b.side = "buy" /\ a.side = "sell") => b.price < a.price

\* The sides and prices of the MM's resting quotes.
MmQuotePrices == {<<o.side, o.price>> : o \in {x \in orders : x.is_mm = 1}}

\* C38: a re-quote that directly follows a re-quote (two hourly ticks, nothing
\* between them) leaves the fair price and the prices of the MM's bid and ask
\* as the first one set them.
RequoteIdempotent ==
    [][(last.op = "hourly" /\ last'.op = "hourly" /\ ops' = ops + 1)
          => /\ mm'.fair_price = mm.fair_price
             /\ company'.fair_price = company.fair_price
             /\ MmQuotePrices' = MmQuotePrices]_vars

\* C39: a limit sell of q shares that rests unfilled and is then cancelled
\* leaves the holder's row as it was, the average cost included, for every q
\* from 1 to the whole position.
ReserveRestoreKeepsCost ==
    \A u \in Users, q \in ShareInputs, p \in PriceInputs :
        (/\ q >= 1
         /\ q <= holdings[u].quantity
         /\ limitsell(DB, u, q, p).ok
         /\ limitsell(DB, u, q, p).fills = <<>>)
        => cancel(limitsell(DB, u, q, p).d, u, limitsell(DB, u, q, p).order_id).d.holdings[u]
             = holdings[u]

\* C40: delist leaves the cash of every user as it was: what the users'
\* resting buys of the delisted market had reserved is not returned.
DelistKeepsCash ==
    last.op = "delist" => cash = last.pre.cash

\* A market was delisted while a buy of a user rested in it with cash reserved.
DelistedRestingBuy ==
    /\ last.op = "delist"
    /\ \E o \in last.pre.orders :
          /\ o.is_mm = 0
          /\ o.side = "buy"
          /\ o.remaining > 0
          /\ TruncDiv(o.price * o.remaining, 100) > 0

====
